---------------------------- MODULE Spec2Model ----------------------------
(***************************************************************************)
(* A model of the workday-cal converter: the schedule parser               *)
(* (src/js/parser.js, class WorkdayParser) and the calendar serializer     *)
(* (src/js/calendar.js, class CalendarGenerator).                          *)
(*                                                                         *)
(* JavaScript text is modelled as a sequence of one-character strings, so  *)
(* that searching, splitting, replacing and pattern matching are computed  *)
(* character by character, as the code computes them.  The JavaScript      *)
(* value undefined is the one-element sequence UNDEF, whose element is not *)
(* a character.                                                            *)
(***************************************************************************)
EXTENDS Integers, Sequences, FiniteSets, TLC

VARIABLES
    fn,             \* the function under call ("escapeText", ...; "parseExcel")
    arg,            \* its argument(s)
    called,         \* TRUE once the call has returned
    ret,            \* the value returned (meaningful when called)
    pc,             \* parseExcel: position in the function body
    rowIdx,         \* parseExcel: the loop variable i (0-indexed)
    currentStudent, \* parseExcel: the local currentStudent
    courses,        \* parseExcel: the local courses
    parsedRows,     \* parseExcel: indices of the rows handed to parseCourseRow
    checksDone,     \* parseExcel: the checks made so far, in order
    appCourses,     \* WorkdayCalendarApp: this.courses
    courseMap,      \* WorkdayCalendarApp: the local courseMap of the last collapse
    courseItems,    \* WorkdayCalendarApp: the course items of the list, by index
    selectedCourses, \* WorkdayCalendarApp: this.selectedCourses
    currentView,    \* WorkdayCalendarApp: this.currentView
    calendarGroups, \* CalendarView: the term calendars of the last render
    pendingReads,   \* the files whose FileReader has not fired onload yet
    chosenFile,     \* the file of the user's last choice, NoFile after reset
    previewShown,   \* the preview section is displayed
    errorShown      \* the error section is displayed

vars ==
    <<fn, arg, called, ret, pc, rowIdx, currentStudent, courses, parsedRows, checksDone,
      appCourses, courseMap, courseItems, selectedCourses, currentView, calendarGroups,
      pendingReads, chosenFile, previewShown, errorShown>>
callVars == <<fn, arg, called, ret>>
excelVars == <<pc, rowIdx, currentStudent, courses, parsedRows, checksDone>>
listVars == <<appCourses, courseMap, courseItems, selectedCourses>>
viewVars == <<currentView, calendarGroups>>
readVars == <<pendingReads, chosenFile>>
appVars == <<listVars, viewVars, readVars, previewShown, errorShown>>

(***************************************************************************)
(* Text                                                                    *)
(***************************************************************************)
BS == "\\"
LF == "\n"
CR == "\r"
TAB == "\t"
ENDASH == "endash"
EMDASH == "emdash"

UNDEF == <<"undefined">>
NULL == <<"null">>

\* null where a StudentInfo is expected, and a pattern that does not match where
\* the positions of its groups are expected
NoStudent == [null |-> TRUE]
NoMatch == [matched |-> FALSE]

\* JavaScript truthiness of a text-or-absent value
Truthy(x) == x # UNDEF /\ x # NULL /\ x # <<>>

\* `${x}` of a text-or-undefined value
Str(x) ==
    IF x = UNDEF THEN <<"u", "n", "d", "e", "f", "i", "n", "e", "d">>
    ELSE IF x = NULL THEN <<"n", "u", "l", "l">>
    ELSE x

TextsUpTo(alphabet, n) == UNION {[1..k -> alphabet] : k \in 0..n}

RECURSIVE ReplaceChar(_, _, _)
\* s.replace(/c/g, r) for a one-character pattern c
ReplaceChar(s, c, r) ==
    IF s = <<>> THEN <<>>
    ELSE IF Len(s) = 1 THEN (IF s[1] = c THEN r ELSE s)
    ELSE LET half == Len(s) \div 2
         IN  ReplaceChar(SubSeq(s, 1, half), c, r)
               \o ReplaceChar(SubSeq(s, half + 1, Len(s)), c, r)

(***************************************************************************)
(* CalendarGenerator.escapeText                                            *)
(***************************************************************************)
\* the replacements in another order: the backslash last
escapeTextBackslashLast(text) ==
    IF ~Truthy(text) THEN <<>>
    ELSE ReplaceChar(
           ReplaceChar(
             ReplaceChar(
               ReplaceChar(
                 ReplaceChar(text, ";", <<BS, ";">>),
                 ",", <<BS, ",">>),
               LF, <<BS, "n">>),
             CR, <<>>),
           BS, <<BS, BS>>)

escapeText(text) ==
    IF ~Truthy(text) THEN <<>>
    ELSE ReplaceChar(
           ReplaceChar(
             ReplaceChar(
               ReplaceChar(
                 ReplaceChar(text, BS, <<BS, BS>>),
                 ";", <<BS, ";">>),
               ",", <<BS, ",">>),
             LF, <<BS, "n">>),
           CR, <<>>)

(***************************************************************************)
(* Numbers and text                                                        *)
(***************************************************************************)
Digits == {"0", "1", "2", "3", "4", "5", "6", "7", "8", "9"}

DigitValue(c) ==
    CASE c = "0" -> 0 [] c = "1" -> 1 [] c = "2" -> 2 [] c = "3" -> 3
      [] c = "4" -> 4 [] c = "5" -> 5 [] c = "6" -> 6 [] c = "7" -> 7
      [] c = "8" -> 8 [] c = "9" -> 9

DigitChar(n) ==
    CASE n = 0 -> "0" [] n = 1 -> "1" [] n = 2 -> "2" [] n = 3 -> "3"
      [] n = 4 -> "4" [] n = 5 -> "5" [] n = 6 -> "6" [] n = 7 -> "7"
      [] n = 8 -> "8" [] n = 9 -> "9"

IsDigits(s) == \A k \in 1..Len(s) : s[k] \in Digits

RECURSIVE ToNumber(_)
\* Number(s) of a text of decimal digits (Number('') is 0)
ToNumber(s) ==
    IF s = <<>> THEN 0
    ELSE 10 * ToNumber(SubSeq(s, 1, Len(s) - 1)) + DigitValue(s[Len(s)])

RECURSIVE NumToText(_)
\* n.toString() of a non-negative integer
NumToText(n) ==
    IF n < 10 THEN <<DigitChar(n)>>
    ELSE NumToText(n \div 10) \o <<DigitChar(n % 10)>>

\* s.padStart(2, '0')
PadStart2(s) == IF Len(s) < 2 THEN <<"0">> \o s ELSE s

RECURSIVE SplitOn(_, _)
\* s.split(c) for a one-character separator c
SplitOn(s, c) ==
    IF \A k \in 1..Len(s) : s[k] # c THEN <<s>>
    ELSE LET k == CHOOSE j \in 1..Len(s) :
                      s[j] = c /\ \A h \in 1..(j - 1) : s[h] # c
         IN  <<SubSeq(s, 1, k - 1)>> \o SplitOn(SubSeq(s, k + 1, Len(s)), c)

\* s.replace(c, '') for a one-character text pattern c: the first occurrence only
RemoveFirst(s, c) ==
    IF \A k \in 1..Len(s) : s[k] # c THEN s
    ELSE LET k == CHOOSE j \in 1..Len(s) :
                      s[j] = c /\ \A h \in 1..(j - 1) : s[h] # c
         IN  SubSeq(s, 1, k - 1) \o SubSeq(s, k + 1, Len(s))

RECURSIVE JoinWith(_, _)
\* parts.join(sep)
JoinWith(parts, sep) ==
    IF parts = <<>> THEN <<>>
    ELSE IF Len(parts) = 1 THEN parts[1]
    ELSE LET half == Len(parts) \div 2
         IN  JoinWith(SubSeq(parts, 1, half), sep) \o sep
               \o JoinWith(SubSeq(parts, half + 1, Len(parts)), sep)

(***************************************************************************)
(* The JavaScript Date of a local calendar day: [y, m, d], m in 1..12      *)
(***************************************************************************)
IsLeap(y) == (y % 4 = 0 /\ y % 100 # 0) \/ y % 400 = 0

DaysInMonth(y, m) ==
    IF m = 2 THEN (IF IsLeap(y) THEN 29 ELSE 28)
    ELSE IF m \in {4, 6, 9, 11} THEN 30 ELSE 31

RECURSIVE NormalizeDate(_, _, _)
\* new Date(y, m - 1, d) and setDate(d): a day past the end of the month rolls
\* into the following months
NormalizeDate(y, m, d) ==
    IF m > 12 THEN NormalizeDate(y + 1, m - 12, d)
    ELSE IF d > DaysInMonth(y, m) THEN NormalizeDate(y, m + 1, d - DaysInMonth(y, m))
    ELSE [y |-> y, m |-> m, d |-> d]

\* the number of leap years before year y
LeapYearsBefore(y) == ((y - 1) \div 4) - ((y - 1) \div 100) + ((y - 1) \div 400)

\* days from 1970-01-01 to January 1st of year y >= 1970
DaysBeforeYear(y) ==
    IF y <= 1970 THEN 0
    ELSE 365 * (y - 1970) + LeapYearsBefore(y) - LeapYearsBefore(1970)

RECURSIVE DaysBeforeMonth(_, _)
DaysBeforeMonth(y, m) ==
    IF m <= 1 THEN 0 ELSE DaysBeforeMonth(y, m - 1) + DaysInMonth(y, m - 1)

\* days from 1970-01-01 (a Thursday) to the date
DayNumber(date) == DaysBeforeYear(date.y) + DaysBeforeMonth(date.y, date.m) + date.d - 1

\* Date.prototype.getDay: 0 is Sunday
getDay(date) == (4 + DayNumber(date)) % 7

(***************************************************************************)
(* CalendarGenerator.getFirstOccurrence and formatDate                     *)
(***************************************************************************)
MO == <<"M", "O">>
TU == <<"T", "U">>
WE == <<"W", "E">>
TH == <<"T", "H">>
FR == <<"F", "R">>
SA == <<"S", "A">>
SU == <<"S", "U">>
WeekdayCodes == <<MO, TU, WE, TH, FR, SA, SU>>

calendarDayMap(code) ==
    CASE code = MO -> 1 [] code = TU -> 2 [] code = WE -> 3 [] code = TH -> 4
      [] code = FR -> 5 [] code = SA -> 6 [] code = SU -> 0

RECURSIVE InsertSorted(_, _)
InsertSorted(sorted, x) ==
    IF sorted = <<>> THEN <<x>>
    ELSE IF x < Head(sorted) THEN <<x>> \o sorted
    ELSE <<Head(sorted)>> \o InsertSorted(Tail(sorted), x)

RECURSIVE SortNumbers(_)
\* nums.sort((a, b) => a - b)
SortNumbers(nums) ==
    IF nums = <<>> THEN <<>>
    ELSE InsertSorted(SortNumbers(SubSeq(nums, 1, Len(nums) - 1)), nums[Len(nums)])

formatDate(date) ==
    NumToText(date.y) \o PadStart2(NumToText(date.m)) \o PadStart2(NumToText(date.d))

\* a loop that stops at the first target day
DaysToAddFirstTarget(targetDays, startDayOfWeek, daysToAdd) ==
    IF targetDays = <<>> THEN daysToAdd
    ELSE (Head(targetDays) - startDayOfWeek + 7) % 7

RECURSIVE DaysToAdd(_, _, _)
\* the loop over targetDays; daysToAdd is the loop's running value
DaysToAdd(targetDays, startDayOfWeek, daysToAdd) ==
    IF targetDays = <<>> THEN daysToAdd
    ELSE LET targetDay == Head(targetDays)
             diff == (targetDay - startDayOfWeek + 7) % 7
         IN  IF diff = 0 \/ startDayOfWeek = targetDay THEN 0
             ELSE IF daysToAdd = 0 \/ diff < daysToAdd
                  THEN DaysToAdd(Tail(targetDays), startDayOfWeek, diff)
                  ELSE DaysToAdd(Tail(targetDays), startDayOfWeek, daysToAdd)

getFirstOccurrence(startDate, days, time) ==
    IF ~Truthy(startDate) \/ days = UNDEF \/ Len(days) = 0 \/ ~Truthy(time) THEN NULL
    ELSE LET ymd == SplitOn(startDate, "-")
             baseDate == NormalizeDate(ToNumber(ymd[1]), ToNumber(ymd[2]), ToNumber(ymd[3]))
             startDayOfWeek == getDay(baseDate)
             targetDays == SortNumbers([k \in 1..Len(days) |-> calendarDayMap(days[k])])
             daysToAdd == DaysToAdd(targetDays, startDayOfWeek, 0)
             firstDate == NormalizeDate(baseDate.y, baseDate.m, baseDate.d + daysToAdd)
             dateStr == formatDate(firstDate)
             timeStr == RemoveFirst(time, ":")
         IN  dateStr \o <<"T">> \o timeStr \o <<"0", "0">>

(***************************************************************************)
(* Text search and the patterns of WorkdayParser                           *)
(***************************************************************************)
\* the characters that \s and trim() take for white space
WhiteSpace == {" ", TAB, LF, CR}

UpperCase == {"A", "B", "C", "D", "E", "F", "G", "H", "I", "J", "K", "L", "M",
              "N", "O", "P", "Q", "R", "S", "T", "U", "V", "W", "X", "Y", "Z"}

\* the character at position i, or the empty string past either end
CharAt(s, i) == IF i \in 1..Len(s) THEN s[i] ELSE ""

StartsWithAt(s, i, lit) ==
    /\ i >= 1
    /\ i + Len(lit) - 1 <= Len(s)
    /\ SubSeq(s, i, i + Len(lit) - 1) = lit

\* s.includes(sub)
Includes(s, sub) == \E i \in 1..(Len(s) - Len(sub) + 1) : StartsWithAt(s, i, sub)

\* the position after the longest run of white space that starts at i
SkipSpaces(s, i) ==
    CHOOSE j \in i..(Len(s) + 1) :
        /\ \A h \in i..(j - 1) : s[h] \in WhiteSpace
        /\ CharAt(s, j) \notin WhiteSpace

\* the position after the longest run of characters of a set that starts at i
SkipChars(s, i, set) ==
    CHOOSE j \in i..(Len(s) + 1) :
        /\ \A h \in i..(j - 1) : s[h] \in set
        /\ CharAt(s, j) \notin set

\* s.trim()
Trim(s) ==
    IF \A k \in 1..Len(s) : s[k] \in WhiteSpace THEN <<>>
    ELSE LET a == CHOOSE j \in 1..Len(s) :
                      s[j] \notin WhiteSpace /\ \A h \in 1..(j - 1) : s[h] \in WhiteSpace
             b == CHOOSE j \in 1..Len(s) :
                      s[j] \notin WhiteSpace /\ \A h \in (j + 1)..Len(s) : s[h] \in WhiteSpace
         IN  SubSeq(s, a, b)

\* the least position of a non-empty set of positions
Leftmost(S) == CHOOSE i \in S : \A j \in S : i <= j

\* \d{4}-\d{2}-\d{2} at position i
IsoDateAt(s, i) ==
    /\ i + 9 <= Len(s)
    /\ \A k \in {0, 1, 2, 3, 5, 6, 8, 9} : s[i + k] \in Digits
    /\ s[i + 4] = "-"
    /\ s[i + 7] = "-"

\* where the second date of /(\d{4}-\d{2}-\d{2})\s*-\s*(\d{4}-\d{2}-\d{2})/ starts
\* when the pattern matches from position i, else 0
DateRangeAt(s, i) ==
    IF ~IsoDateAt(s, i) THEN 0
    ELSE LET dash == SkipSpaces(s, i + 10)
         IN  IF CharAt(s, dash) # "-" THEN 0
             ELSE LET second == SkipSpaces(s, dash + 1)
                  IN  IF IsoDateAt(s, second) THEN second ELSE 0

\* dateRange.match(...): the groups of the leftmost match, or NULL
dateRangeMatch(s) ==
    LET starts == {i \in 1..Len(s) : DateRangeAt(s, i) > 0}
    IN  IF starts = {} THEN NULL
        ELSE LET i == Leftmost(starts)
                 j == DateRangeAt(s, i)
             IN  <<SubSeq(s, i, i + 9), SubSeq(s, j, j + 9)>>

\* the length of \d{1,2}:\d{2} matched at position i, or 0
TimeTokenAt(s, i) ==
    IF /\ CharAt(s, i) \in Digits /\ CharAt(s, i + 1) \in Digits
       /\ CharAt(s, i + 2) = ":"
       /\ CharAt(s, i + 3) \in Digits /\ CharAt(s, i + 4) \in Digits
    THEN 5
    ELSE IF /\ CharAt(s, i) \in Digits /\ CharAt(s, i + 1) = ":"
            /\ CharAt(s, i + 2) \in Digits /\ CharAt(s, i + 3) \in Digits
    THEN 4
    ELSE 0

AM == <<"a", ".", "m", ".">>
PM == <<"p", ".", "m", ".">>

\* (a\.m\.|p\.m\.) at position i
PeriodAt(s, i) == StartsWithAt(s, i, AM) \/ StartsWithAt(s, i, PM)

\* the groups of the time-range pattern matched from position i, or NULL
TimeRangeAt(s, i) ==
    LET n1 == TimeTokenAt(s, i)
        p1 == SkipSpaces(s, i + n1)
        dash == SkipSpaces(s, p1 + 4)
        t2 == SkipSpaces(s, dash + 1)
        n2 == TimeTokenAt(s, t2)
        p2 == SkipSpaces(s, t2 + n2)
    IN  IF /\ n1 > 0
           /\ PeriodAt(s, p1)
           /\ CharAt(s, dash) = "-"
           /\ n2 > 0
           /\ PeriodAt(s, p2)
        THEN <<SubSeq(s, i, i + n1 - 1), SubSeq(s, p1, p1 + 3),
               SubSeq(s, t2, t2 + n2 - 1), SubSeq(s, p2, p2 + 3)>>
        ELSE NULL

\* timeRange.match(...): the groups of the leftmost match, or NULL
timeRangeMatch(s) ==
    LET starts == {i \in 1..Len(s) : TimeRangeAt(s, i) # NULL}
    IN  IF starts = {} THEN NULL ELSE TimeRangeAt(s, Leftmost(starts))

RECURSIVE ReplaceLabel(_, _, _)
\* s.replace(/<label>\s*/g, repl)
ReplaceLabel(s, label, repl) ==
    IF s = <<>> THEN <<>>
    ELSE IF StartsWithAt(s, 1, label)
         THEN repl \o ReplaceLabel(
                        SubSeq(s, SkipSpaces(s, Len(label) + 1), Len(s)), label, repl)
    ELSE <<Head(s)>> \o ReplaceLabel(Tail(s), label, repl)

RECURSIVE CollapseSpaces(_)
\* s.replace(/\s+/g, ' ')
CollapseSpaces(s) ==
    IF s = <<>> THEN <<>>
    ELSE IF Head(s) \in WhiteSpace
         THEN <<" ">> \o CollapseSpaces(SubSeq(s, SkipSpaces(s, 1), Len(s)))
    ELSE <<Head(s)>> \o CollapseSpaces(Tail(s))

RECURSIVE SelectNonBlank(_)
\* lines.filter(line => line.trim())
SelectNonBlank(lines) ==
    IF lines = <<>> THEN <<>>
    ELSE (IF Trim(Head(lines)) # <<>> THEN <<Head(lines)>> ELSE <<>>)
           \o SelectNonBlank(Tail(lines))

(***************************************************************************)
(* WorkdayParser: parseDays, convertTo24Hour, parseLocation,               *)
(* parseMeetingPatterns                                                    *)
(***************************************************************************)
\* the entries of parseDays' dayMap, in insertion order
parserDayMap ==
    << <<<<"M", "o", "n">>, MO>>, <<<<"T", "u", "e">>, TU>>, <<<<"W", "e", "d">>, WE>>,
       <<<<"T", "h", "u">>, TH>>, <<<<"F", "r", "i">>, FR>>, <<<<"S", "a", "t">>, SA>>,
       <<<<"S", "u", "n">>, SU>> >>

RECURSIVE DaysFrom(_, _)
DaysFrom(daysStr, k) ==
    IF k > Len(parserDayMap) THEN <<>>
    ELSE (IF Includes(daysStr, parserDayMap[k][1]) THEN <<parserDayMap[k][2]>> ELSE <<>>)
           \o DaysFrom(daysStr, k + 1)

\* a loop that stops at the first name found
parseDaysFirstFound(daysStr) ==
    IF ~Truthy(daysStr) \/ DaysFrom(daysStr, 1) = <<>> THEN <<>>
    ELSE <<DaysFrom(daysStr, 1)[1]>>

parseDays(daysStr) == IF ~Truthy(daysStr) THEN <<>> ELSE DaysFrom(daysStr, 1)

\* a conversion that leaves the hour 12 of a.m. as it is
convertTo24HourNoMidnight(time, period) ==
    LET hm == SplitOn(time, ":")
        hours == ToNumber(hm[1])
        minutes == ToNumber(hm[2])
        hour24 == IF Includes(period, PM) /\ hours # 12 THEN hours + 12 ELSE hours
    IN  PadStart2(NumToText(hour24)) \o <<":">> \o PadStart2(NumToText(minutes))

convertTo24Hour(time, period) ==
    LET hm == SplitOn(time, ":")
        hours == ToNumber(hm[1])
        minutes == ToNumber(hm[2])
        hour24 == IF Includes(period, PM) /\ hours # 12 THEN hours + 12
                  ELSE IF Includes(period, AM) /\ hours = 12 THEN 0
                  ELSE hours
    IN  PadStart2(NumToText(hour24)) \o <<":">> \o PadStart2(NumToText(minutes))

FloorLabel == <<"F", "l", "o", "o", "r", ":">>
FloorText == <<"F", "l", "o", "o", "r", " ">>
RoomLabel == <<"R", "o", "o", "m", ":">>
RoomText == <<"R", "o", "o", "m", " ">>

parseLocation(locationStr) ==
    IF ~Truthy(locationStr) THEN <<>>
    ELSE Trim(CollapseSpaces(
             ReplaceLabel(ReplaceLabel(locationStr, FloorLabel, FloorText),
                          RoomLabel, RoomText)))

\* the Meeting of one line, as a list of no or one Meeting
MeetingOfLine(line) ==
    LET split == SplitOn(line, "|")
        parts == [k \in 1..Len(split) |-> Trim(split[k])]
    IN  IF Len(parts) < 3 THEN <<>>
        ELSE LET dateRange == parts[1]
                 days == parts[2]
                 timeRange == parts[3]
                 location == JoinWith(SubSeq(parts, 4, Len(parts)), <<" ", "|", " ">>)
                 dateMatch == dateRangeMatch(dateRange)
                 timeMatch == timeRangeMatch(timeRange)
             IN  IF dateMatch # NULL /\ timeMatch # NULL
                 THEN << [startDate |-> dateMatch[1],
                          endDate |-> dateMatch[2],
                          days |-> parseDays(days),
                          startTime |-> convertTo24Hour(timeMatch[1], timeMatch[2]),
                          endTime |-> convertTo24Hour(timeMatch[3], timeMatch[4]),
                          location |-> parseLocation(location)] >>
                 ELSE <<>>

\* a loop that stops after the first meeting
RECURSIVE MeetingsOfLinesFirstOnly(_)
MeetingsOfLinesFirstOnly(lines) ==
    IF lines = <<>> THEN <<>>
    ELSE IF MeetingOfLine(Head(lines)) # <<>> THEN MeetingOfLine(Head(lines))
    ELSE MeetingsOfLinesFirstOnly(Tail(lines))

RECURSIVE MeetingsOfLines(_)
\* the loop over lines
MeetingsOfLines(lines) ==
    IF lines = <<>> THEN <<>>
    ELSE MeetingOfLine(Head(lines)) \o MeetingsOfLines(Tail(lines))

\* cell values that are not text: a number and a Date (both truthy)
NumberCell == <<"number 12345">>
DateCell == <<"Date 2025-09-02T00:00:00.000Z">>
\* a Date object whose time value is NaN
InvalidDateCell == <<"Date NaN">>
IsString(x) == x \notin {UNDEF, NULL, NumberCell, DateCell, InvalidDateCell}

parseMeetingPatterns(pattern) ==
    IF ~Truthy(pattern) \/ ~IsString(pattern) THEN <<>>
    ELSE MeetingsOfLines(SelectNonBlank(SplitOn(pattern, LF)))

(***************************************************************************)
(* WorkdayParser: parseStudentInfo, parseDate, parseCourseRow              *)
(***************************************************************************)
LineTerminators == {LF, CR}

\* String(x) of a cell value
StringOf(x) ==
    IF x = NumberCell THEN <<"1", "2", "3", "4", "5">>
    ELSE IF x = DateCell
         THEN <<"T", "u", "e", " ", "S", "e", "p", " ", "0", "2", " ", "2", "0", "2", "5", " ", "0", "0", ":", "0", "0", ":", "0", "0", " ", "G", "M", "T", "+", "0", "0", "0", "0">>
    ELSE Str(x)

\* row[k] for a 0-based index k; an index past the end of the row, and the
\* index -1 that stands for row[undefined], give undefined
CellAt(row, k) == IF k + 1 \in 1..Len(row) THEN row[k + 1] ELSE UNDEF

\* a || b
OrElse(a, b) == IF Truthy(a) THEN a ELSE b

\* the position after the last character of the line that position i is in
LineEnd(s, i) ==
    CHOOSE j \in i..(Len(s) + 1) :
        /\ \A h \in i..(j - 1) : s[h] \notin LineTerminators
        /\ CharAt(s, j) \in LineTerminators \cup {""}

\* \s*(.+) matched from position i: where the group starts, or 0.  The white
\* space is taken greedily and given back only when nothing is left for (.+).
RestGroupAt(s, i) ==
    LET t == SkipSpaces(s, i)
        back == {p \in i..(t - 1) : s[p] \notin LineTerminators}
    IN  IF t <= Len(s) THEN t
        ELSE IF back = {} THEN 0
        ELSE CHOOSE p \in back : \A q \in back : q <= p

\* /(.+?)\s*\((\d+)\)\s*-\s*(.+)/ : the part after (.+?), matched from position i;
\* a record of the positions of the groups, or NoMatch
StudentTailAt(s, i) ==
    LET open == SkipSpaces(s, i)
        close == SkipChars(s, open + 1, Digits)
        dash == SkipSpaces(s, close + 1)
        term == RestGroupAt(s, dash + 1)
    IN  IF /\ CharAt(s, open) = "("
           /\ close > open + 1
           /\ CharAt(s, close) = ")"
           /\ CharAt(s, dash) = "-"
           /\ term > 0
        THEN [idFrom |-> open + 1, idTo |-> close - 1, termFrom |-> term,
              termTo |-> LineEnd(s, term) - 1]
        ELSE NoMatch

\* the pairs <<i, e>> such that (.+?) can be s[i..e]
StudentMatches(s) ==
    {ie \in (1..Len(s)) \X (1..Len(s)) :
        /\ ie[1] <= ie[2]
        /\ \A h \in ie[1]..ie[2] : s[h] \notin LineTerminators
        /\ StudentTailAt(s, ie[2] + 1) # NoMatch}

parseStudentInfo(text) ==
    LET ms == StudentMatches(text)
    IN  IF ms = {} THEN NoStudent
        ELSE LET i == Leftmost({ie[1] : ie \in ms})
                 e == Leftmost({ie[2] : ie \in {x \in ms : x[1] = i}})
                 tail == StudentTailAt(text, e + 1)
             IN  [name |-> Trim(SubSeq(text, i, e)),
                  id |-> SubSeq(text, tail.idFrom, tail.idTo),
                  term |-> Trim(SubSeq(text, tail.termFrom, tail.termTo))]

\* the text of toISOString() for the Date cell of the model
DateCellIso == <<"2", "0", "2", "5", "-", "0", "9", "-", "0", "2", "T", "0", "0", ":", "0", "0", ":", "0", "0", ".", "0", "0", "0", "Z">>
EpochIso == <<"1", "9", "7", "0", "-", "0", "1", "-", "0", "1", "T", "0", "0", ":", "0", "0", ":", "1", "2", ".", "3", "4", "5", "Z">>

\* new Date(dateStr) of a text that is not in YYYY-MM-DD form: the texts of the
\* model (TBA, ...) give an Invalid Date
IsInvalidDateText(dateStr) == IsString(dateStr)

\* toISOString() of a Date whose time value is NaN raises a RangeError, outside
\* the try block
parseDateThrows(dateStr) == dateStr = InvalidDateCell

parseDate(dateStr) ==
    IF ~Truthy(dateStr) THEN NULL
    ELSE IF dateStr = DateCell THEN SplitOn(DateCellIso, "T")[1]
    ELSE IF IsoDateAt(StringOf(dateStr), 1) THEN SplitOn(dateStr, " ")[1]
    ELSE IF ~IsInvalidDateText(dateStr) THEN SplitOn(EpochIso, "T")[1]
    ELSE NULL

\* /([A-Z]+)_V\s+(\d+)\s*[-–—]\s*(.+)/ matched from position i: the positions of
\* the groups, or NoMatch
CourseMatchAt(s, i) ==
    LET marker == SkipChars(s, i, UpperCase)
        number == SkipSpaces(s, marker + 2)
        afterNumber == SkipChars(s, number, Digits)
        dash == SkipSpaces(s, afterNumber)
        title == RestGroupAt(s, dash + 1)
    IN  IF /\ marker > i
           /\ StartsWithAt(s, marker, <<"_", "V">>)
           /\ number > marker + 2
           /\ afterNumber > number
           /\ CharAt(s, dash) \in {"-", ENDASH, EMDASH}
           /\ title > 0
        THEN [lettersFrom |-> i, lettersTo |-> marker - 1,
              digitsFrom |-> number, digitsTo |-> afterNumber - 1,
              titleFrom |-> title, titleTo |-> LineEnd(s, title) - 1]
        ELSE NoMatch

\* courseStr.match(...): the groups of the leftmost match, or NULL
courseMatch(s) ==
    LET starts == {i \in 1..Len(s) : CourseMatchAt(s, i) # NoMatch}
    IN  IF starts = {} THEN NULL
        ELSE LET m == CourseMatchAt(s, Leftmost(starts))
             IN  <<SubSeq(s, m.lettersFrom, m.lettersTo),
                   SubSeq(s, m.digitsFrom, m.digitsTo),
                   SubSeq(s, m.titleFrom, m.titleTo)>>

\* columnMap[name]: the 0-based index of the last header whose trimmed text is
\* name, or -1 for undefined
ColumnOf(headers, name) ==
    LET at == {k \in 1..Len(headers) :
                 /\ Truthy(headers[k])
                 /\ Trim(headers[k]) # <<>>
                 /\ Trim(headers[k]) = name}
    IN  IF at = {} THEN -1 ELSE (CHOOSE k \in at : \A j \in at : j <= k) - 1

HeaderCredits == <<"C", "r", "e", "d", "i", "t", "s">>
HeaderSection == <<"S", "e", "c", "t", "i", "o", "n">>
HeaderStatus == <<"R", "e", "g", "i", "s", "t", "r", "a", "t", "i", "o", "n", " ", "S", "t", "a", "t", "u", "s">>
HeaderFormat == <<"I", "n", "s", "t", "r", "u", "c", "t", "i", "o", "n", "a", "l", " ", "F", "o", "r", "m", "a", "t">>
HeaderDelivery == <<"D", "e", "l", "i", "v", "e", "r", "y", " ", "M", "o", "d", "e">>
HeaderMeetings == <<"M", "e", "e", "t", "i", "n", "g", " ", "P", "a", "t", "t", "e", "r", "n", "s">>
HeaderInstructor == <<"I", "n", "s", "t", "r", "u", "c", "t", "o", "r">>
HeaderStartDate == <<"S", "t", "a", "r", "t", " ", "D", "a", "t", "e">>
HeaderEndDate == <<"E", "n", "d", " ", "D", "a", "t", "e">>
SpaceDashSpace == <<" ", "-", " ">>

\* parseCourseRow raises a TypeError: header.trim or row[0].includes called on
\* a value that is truthy and not a string
parseCourseRowThrows(row, headers) ==
    \/ \E k \in 1..Len(headers) : Truthy(headers[k]) /\ ~IsString(headers[k])
    \/ Truthy(CellAt(row, 0)) /\ ~IsString(CellAt(row, 0))

\* a lookup that prefers the cell under the header of the field's name
FieldOfHeaderFirst(row, headers, index, name) ==
    OrElse(CellAt(row, ColumnOf(headers, name)), CellAt(row, index))

\* the value of a field: the cell at the fixed index, else the cell under the
\* header of the field's name
FieldOf(row, headers, index, name) ==
    OrElse(CellAt(row, index), CellAt(row, ColumnOf(headers, name)))

parseCourseRow(row, headers, studentInfo) ==
    LET student ==
            IF /\ Truthy(CellAt(row, 0))
               /\ Includes(CellAt(row, 0), SpaceDashSpace)
               /\ Includes(CellAt(row, 0), <<"(">>)
               /\ studentInfo = NoStudent
            THEN parseStudentInfo(CellAt(row, 0))
            ELSE studentInfo
        courseListing == CellAt(row, 1)
        match == IF Truthy(courseListing)
                 THEN courseMatch(Trim(StringOf(courseListing)))
                 ELSE NULL
        meetingPattern == OrElse(FieldOf(row, headers, 10, HeaderMeetings), <<>>)
        startDate == FieldOf(row, headers, 12, HeaderStartDate)
        endDate == FieldOf(row, headers, 13, HeaderEndDate)
    IN  [student |-> student,
         code |-> IF match # NULL THEN match[1] \o <<" ">> \o match[2] ELSE <<>>,
         name |-> IF match # NULL THEN Trim(match[3]) ELSE <<>>,
         section |-> OrElse(FieldOf(row, headers, 6, HeaderSection), <<>>),
         credits |-> OrElse(FieldOf(row, headers, 4, HeaderCredits), <<>>),
         instructor |-> OrElse(FieldOf(row, headers, 11, HeaderInstructor), <<>>),
         format |-> OrElse(FieldOf(row, headers, 8, HeaderFormat), <<>>),
         delivery |-> OrElse(FieldOf(row, headers, 9, HeaderDelivery), <<>>),
         status |-> OrElse(FieldOf(row, headers, 7, HeaderStatus), <<>>),
         meetings |-> IF Truthy(meetingPattern)
                      THEN parseMeetingPatterns(meetingPattern) ELSE <<>>,
         startDate |-> IF Truthy(startDate) THEN parseDate(startDate) ELSE UNDEF,
         endDate |-> IF Truthy(endDate) THEN parseDate(endDate) ELSE UNDEF]

(***************************************************************************)
(* WorkdayParser: validateHeaders and the steps of parseExcel              *)
(***************************************************************************)
headerRow == 6
dataStartRow == 7

UpperLetters ==
    <<"A", "B", "C", "D", "E", "F", "G", "H", "I", "J", "K", "L", "M",
      "N", "O", "P", "Q", "R", "S", "T", "U", "V", "W", "X", "Y", "Z">>
LowerLetters ==
    <<"a", "b", "c", "d", "e", "f", "g", "h", "i", "j", "k", "l", "m",
      "n", "o", "p", "q", "r", "s", "t", "u", "v", "w", "x", "y", "z">>

\* s.toLowerCase()
ToLowerCase(s) ==
    [k \in 1..Len(s) |->
        IF s[k] \in UpperCase
        THEN LowerLetters[CHOOSE j \in 1..26 : UpperLetters[j] = s[k]]
        ELSE s[k]]

RECURSIVE SelectTruthy(_)
\* cells.filter(h => h), each cell as the text join() gives it
SelectTruthy(cells) ==
    IF cells = <<>> THEN <<>>
    ELSE (IF Truthy(Head(cells)) THEN <<StringOf(Head(cells))>> ELSE <<>>)
           \o SelectTruthy(Tail(cells))

criticalHeaders == <<<<"D", "r", "o", "p">>, <<"C", "r", "e", "d", "i", "t", "s">>, <<"G", "r", "a", "d", "i", "n", "g">>>>

validateHeaders(headers) ==
    IF Len(headers) < 5 THEN FALSE
    ELSE LET headerString == ToLowerCase(JoinWith(SelectTruthy(headers), <<" ">>))
         IN  \A k \in 1..Len(criticalHeaders) :
                 Includes(headerString, ToLowerCase(criticalHeaders[k]))

\* the position of the first c at or after position i, or Len(s) + 1
FindFrom(s, i, c) ==
    CHOOSE j \in i..(Len(s) + 1) :
        /\ \A h \in i..(j - 1) : s[h] # c
        /\ (j <= Len(s) => s[j] = c)

\* /([^(]+)\((\d+)\)/ matched from position i
ExcelStudentAt(s, i) ==
    LET open == FindFrom(s, i, "(")
        close == SkipChars(s, open + 1, Digits)
    IN  /\ open > i
        /\ open <= Len(s)
        /\ close > open + 1
        /\ CharAt(s, close) = ")"

CurrentTerm == <<"C", "u", "r", "r", "e", "n", "t", " ", "T", "e", "r", "m">>

\* row[0].match(/([^(]+)\((\d+)\)/) of parseExcel and the StudentInfo made of
\* it, or NoStudent without a match
ExcelStudentOf(s) ==
    LET starts == {i \in 1..Len(s) : ExcelStudentAt(s, i)}
    IN  IF starts = {} THEN NoStudent
        ELSE LET i == Leftmost(starts)
                 open == FindFrom(s, i, "(")
             IN  [name |-> Trim(SubSeq(s, i, open - 1)),
                  id |-> SubSeq(s, open + 1, SkipChars(s, open + 1, Digits) - 1),
                  term |-> CurrentTerm]

\* a label test that keeps the first student of the grid
StudentAfterKeepFirst(row, student) ==
    IF /\ student = NoStudent
       /\ Truthy(CellAt(row, 0))
       /\ IsString(CellAt(row, 0))
       /\ ExcelStudentOf(CellAt(row, 0)) # NoStudent
    THEN ExcelStudentOf(CellAt(row, 0))
    ELSE student

\* currentStudent after the student-label test of one loop iteration
StudentAfter(row, student) ==
    IF /\ Truthy(CellAt(row, 0))
       /\ IsString(CellAt(row, 0))
       /\ Includes(CellAt(row, 0), <<"(">>)
       /\ Includes(CellAt(row, 0), <<")">>)
       /\ ExcelStudentOf(CellAt(row, 0)) # NoStudent
    THEN ExcelStudentOf(CellAt(row, 0))
    ELSE student

Sentinel == <<"_", "V", " ">>

\* a loop that hands every row with a listing cell to parseCourseRow
LooksLikeCourseAnyText(row) == Truthy(CellAt(row, 1))

\* the row is handed to parseCourseRow
LooksLikeCourse(row) ==
    /\ Truthy(CellAt(row, 1))
    /\ Includes(StringOf(CellAt(row, 1)), Sentinel)

ErrInsufficient == "Failed to parse file: Invalid file format: insufficient data rows"
ErrFormat ==
    "Failed to parse file: Invalid file format: expected UBC Workday course schedule format"
ErrTypeError == "Failed to parse file: TypeError"

\* the test of the row-count check
RowCountCheckFails(jsonData) == Len(jsonData) < dataStartRow

\* a parser without the header check
HeaderCheckNever(jsonData) == FALSE

\* the test of the header check
HeaderCheckFails(jsonData) == ~validateHeaders(jsonData[headerRow])

\* if (jsonData.length < this.dataStartRow) throw ...
CheckRowCount ==
    /\ fn = "parseExcel"
    /\ pc = "rowCount"
    /\ checksDone' = Append(checksDone, "rowCount")
    /\ IF RowCountCheckFails(arg)
       THEN /\ pc' = "done"
            /\ called' = TRUE
            /\ ret' = [error |-> ErrInsufficient]
       ELSE /\ pc' = "headers"
            /\ UNCHANGED <<called, ret>>
    /\ UNCHANGED <<fn, arg, rowIdx, currentStudent, courses, parsedRows, appVars>>

\* if (!this.validateHeaders(headers)) throw ...
CheckHeaders ==
    /\ fn = "parseExcel"
    /\ pc = "headers"
    /\ checksDone' = Append(checksDone, "headers")
    /\ IF HeaderCheckFails(arg)
       THEN /\ pc' = "done"
            /\ called' = TRUE
            /\ ret' = [error |-> ErrFormat]
            /\ UNCHANGED rowIdx
       ELSE /\ pc' = "rows"
            /\ rowIdx' = dataStartRow - 1
            /\ UNCHANGED <<called, ret>>
    /\ UNCHANGED <<fn, arg, currentStudent, courses, parsedRows, appVars>>

\* one iteration of the loop over the data rows
ProcessRow ==
    /\ fn = "parseExcel"
    /\ pc = "rows"
    /\ rowIdx < Len(arg)
    /\ LET row == arg[rowIdx + 1]
           headers == arg[headerRow]
           student == StudentAfter(row, currentStudent)
       IN  IF Len(row) = 0
           THEN /\ rowIdx' = rowIdx + 1
                /\ UNCHANGED <<pc, called, ret, currentStudent, courses, parsedRows>>
           ELSE IF ~LooksLikeCourse(row)
           THEN /\ rowIdx' = rowIdx + 1
                /\ currentStudent' = student
                /\ UNCHANGED <<pc, called, ret, courses, parsedRows>>
           ELSE IF parseCourseRowThrows(row, headers)
           THEN /\ pc' = "done"
                /\ called' = TRUE
                /\ ret' = [error |-> ErrTypeError]
                /\ currentStudent' = student
                /\ parsedRows' = Append(parsedRows, rowIdx)
                /\ UNCHANGED <<rowIdx, courses>>
           ELSE LET course == parseCourseRow(row, headers, student)
                IN  /\ rowIdx' = rowIdx + 1
                    /\ currentStudent' = student
                    /\ parsedRows' = Append(parsedRows, rowIdx)
                    /\ courses' = IF Truthy(course.code)
                                  THEN Append(courses, course) ELSE courses
                    /\ UNCHANGED <<pc, called, ret>>
    /\ UNCHANGED <<fn, arg, checksDone, appVars>>

\* return courses
ReturnCourses ==
    /\ fn = "parseExcel"
    /\ pc = "rows"
    /\ rowIdx >= Len(arg)
    /\ pc' = "done"
    /\ called' = TRUE
    /\ ret' = [courses |-> courses]
    /\ UNCHANGED <<fn, arg, rowIdx, currentStudent, courses, parsedRows, checksDone, appVars>>

(***************************************************************************)
(* CalendarGenerator: generateUID, buildDescription, buildRRule,           *)
(* createRecurringEvents, buildICSContent, generateICS                     *)
(***************************************************************************)
LowerCase == {LowerLetters[k] : k \in 1..26}
AlphaNumeric == UpperCase \cup LowerCase \cup Digits

\* s.replace(/[set]+/g, '')
RemoveChars(s, set) ==
    LET Kept(ch) == ch \notin set
    IN  SelectSeq(s, Kept)

\* s.replace(/[^set]/g, '')
KeepChars(s, set) ==
    LET Kept(ch) == ch \in set
    IN  SelectSeq(s, Kept)

\* Date.now() as text: a clock reading is the number of milliseconds since the
\* call of generateICS began
ClockOrigin == <<"1", "7", "6", "2", "2", "8", "9", "1", "0", "0", "0", "0">>
NowText(reading) == ClockOrigin \o <<DigitChar(reading)>>

UidDomain == <<"@", "w", "o", "r", "k", "d", "a", "y", "-", "c", "a", "l">>

\* reading is what Date.now() returns in this call
generateUID(course, meeting, reading) ==
    LET timestamp == NowText(reading)
        courseId == RemoveChars(course.code, WhiteSpace)
        meetingId == KeepChars(Str(meeting.startDate) \o <<"-">> \o JoinWith(meeting.days, <<>>),
                               AlphaNumeric)
    IN  courseId \o <<"-">> \o meetingId \o <<"-">> \o timestamp \o UidDomain

LblCourse == <<"C", "o", "u", "r", "s", "e", ":", " ">>
LblSection == <<"S", "e", "c", "t", "i", "o", "n", ":", " ">>
LblInstructor == <<"I", "n", "s", "t", "r", "u", "c", "t", "o", "r", ":", " ">>
LblCredits == <<"C", "r", "e", "d", "i", "t", "s", ":", " ">>
LblFormat == <<"F", "o", "r", "m", "a", "t", ":", " ">>
LblDelivery == <<"D", "e", "l", "i", "v", "e", "r", "y", ":", " ">>
LblStatus == <<"S", "t", "a", "t", "u", "s", ":", " ">>

\* lines.join('\\n'): the separator is a backslash and the letter n
DescriptionSeparator == <<BS, "n">>

DescriptionLines(course) ==
    (IF Truthy(course.name)
     THEN <<LblCourse \o Str(course.code) \o SpaceDashSpace \o course.name>> ELSE <<>>)
    \o (IF Truthy(course.section) THEN <<LblSection \o course.section>> ELSE <<>>)
    \o (IF Truthy(course.instructor) THEN <<LblInstructor \o course.instructor>> ELSE <<>>)
    \o (IF Truthy(course.credits) THEN <<LblCredits \o course.credits>> ELSE <<>>)
    \o (IF Truthy(course.format) THEN <<LblFormat \o course.format>> ELSE <<>>)
    \o (IF Truthy(course.delivery) THEN <<LblDelivery \o course.delivery>> ELSE <<>>)
    \o (IF Truthy(course.status) THEN <<LblStatus \o course.status>> ELSE <<>>)

buildDescription(course) == JoinWith(DescriptionLines(course), DescriptionSeparator)

HasDays(meeting) == meeting.days # UNDEF /\ Len(meeting.days) > 0

\* a rule that lists the first day only
buildRRuleFirstDay(meeting) ==
    IF ~Truthy(meeting.endDate) \/ ~HasDays(meeting) THEN NULL
    ELSE <<"F", "R", "E", "Q", "=", "W", "E", "E", "K", "L", "Y", ";", "U", "N", "T", "I", "L", "=">>
           \o RemoveChars(meeting.endDate, {"-"}) \o <<"T", "2", "3", "5", "9", "5", "9">>
           \o <<";", "B", "Y", "D", "A", "Y", "=">> \o meeting.days[1]

buildRRule(meeting) ==
    IF ~Truthy(meeting.endDate) \/ ~HasDays(meeting) THEN NULL
    ELSE <<"F", "R", "E", "Q", "=", "W", "E", "E", "K", "L", "Y", ";", "U", "N", "T", "I", "L", "=">>
           \o RemoveChars(meeting.endDate, {"-"}) \o <<"T", "2", "3", "5", "9", "5", "9">>
           \o <<";", "B", "Y", "D", "A", "Y", "=">> \o JoinWith(meeting.days, <<",">>)

DefaultCategory == <<"L", "e", "c", "t", "u", "r", "e">>
Confirmed == <<"C", "O", "N", "F", "I", "R", "M", "E", "D">>

\* the events of one meeting: none or one
createRecurringEvents(course, meeting, reading) ==
    IF ~HasDays(meeting) THEN <<>>
    ELSE << [uid |-> generateUID(course, meeting, reading),
             summary |-> Str(course.code) \o SpaceDashSpace \o Str(course.name),
             description |-> buildDescription(course),
             location |-> meeting.location,
             dtstart |-> getFirstOccurrence(meeting.startDate, meeting.days,
                                            meeting.startTime),
             dtend |-> getFirstOccurrence(meeting.startDate, meeting.days,
                                          meeting.endTime),
             rrule |-> buildRRule(meeting),
             categories |-> OrElse(course.format, DefaultCategory),
             status |-> Confirmed] >>

RECURSIVE MeetingPairs(_)
\* the (course, meeting) pairs in the order of the two nested loops; meetings
\* is a list in every course
MeetingPairs(courseList) ==
    IF courseList = <<>> THEN <<>>
    ELSE LET course == Head(courseList)
         IN  (IF Len(course.meetings) > 0
              THEN [k \in 1..Len(course.meetings) |->
                       [course |-> course, meeting |-> course.meetings[k]]]
              ELSE <<>>) \o MeetingPairs(Tail(courseList))

RECURSIVE EventsOfPairs(_, _, _)
\* uidCalls is the number of generateUID calls made so far; the clock reads 0
\* during the first `ticks` calls and 1 afterwards
EventsOfPairs(pairs, uidCalls, ticks) ==
    IF pairs = <<>> THEN <<>>
    ELSE LET reading == IF uidCalls < ticks THEN 0 ELSE 1
             made == createRecurringEvents(Head(pairs).course, Head(pairs).meeting,
                                           reading)
         IN  made \o EventsOfPairs(Tail(pairs),
                                   IF made = <<>> THEN uidCalls ELSE uidCalls + 1, ticks)

\* the calendar header lines
CalendarHeader ==
    <<<<"B", "E", "G", "I", "N", ":", "V", "C", "A", "L", "E", "N", "D",
         "A", "R">>,
      <<"V", "E", "R", "S", "I", "O", "N", ":", "2", ".", "0">>,
      <<"P", "R", "O", "D", "I", "D", ":", "-", "/", "/", "U", "B", "C",
         " ", "W", "o", "r", "k", "d", "a", "y", " ", "C", "a", "l", "e",
         "n", "d", "a", "r", " ", "C", "o", "n", "v", "e", "r", "t", "e",
         "r", "/", "/", "E", "N">>,
      <<"C", "A", "L", "S", "C", "A", "L", "E", ":", "G", "R", "E", "G",
         "O", "R", "I", "A", "N">>,
      <<"M", "E", "T", "H", "O", "D", ":", "P", "U", "B", "L", "I", "S",
         "H">>,
      <<"X", "-", "W", "R", "-", "C", "A", "L", "N", "A", "M", "E", ":",
         "U", "B", "C", " ", "C", "o", "u", "r", "s", "e", " ", "S", "c",
         "h", "e", "d", "u", "l", "e">>,
      <<"X", "-", "W", "R", "-", "C", "A", "L", "D", "E", "S", "C", ":",
         "C", "o", "u", "r", "s", "e", " ", "s", "c", "h", "e", "d", "u",
         "l", "e", " ", "i", "m", "p", "o", "r", "t", "e", "d", " ", "f",
         "r", "o", "m", " ", "U", "B", "C", " ", "W", "o", "r", "k", "d",
         "a", "y">>,
      <<"X", "-", "W", "R", "-", "T", "I", "M", "E", "Z", "O", "N", "E",
         ":", "A", "m", "e", "r", "i", "c", "a", "/", "V", "a", "n", "c",
         "o", "u", "v", "e", "r">>>>

\* the timezone definition
TimezoneBlock ==
    <<<<"B", "E", "G", "I", "N", ":", "V", "T", "I", "M", "E", "Z", "O",
         "N", "E">>,
      <<"T", "Z", "I", "D", ":", "A", "m", "e", "r", "i", "c", "a", "/",
         "V", "a", "n", "c", "o", "u", "v", "e", "r">>,
      <<"B", "E", "G", "I", "N", ":", "D", "A", "Y", "L", "I", "G", "H",
         "T">>,
      <<"T", "Z", "O", "F", "F", "S", "E", "T", "F", "R", "O", "M", ":",
         "-", "0", "8", "0", "0">>,
      <<"T", "Z", "O", "F", "F", "S", "E", "T", "T", "O", ":", "-", "0",
         "7", "0", "0">>,
      <<"T", "Z", "N", "A", "M", "E", ":", "P", "D", "T">>,
      <<"D", "T", "S", "T", "A", "R", "T", ":", "2", "0", "2", "5", "0",
         "3", "0", "9", "T", "0", "2", "0", "0", "0", "0">>,
      <<"R", "R", "U", "L", "E", ":", "F", "R", "E", "Q", "=", "Y", "E",
         "A", "R", "L", "Y", ";", "B", "Y", "M", "O", "N", "T", "H", "=",
         "3", ";", "B", "Y", "D", "A", "Y", "=", "2", "S", "U">>,
      <<"E", "N", "D", ":", "D", "A", "Y", "L", "I", "G", "H", "T">>,
      <<"B", "E", "G", "I", "N", ":", "S", "T", "A", "N", "D", "A", "R",
         "D">>,
      <<"T", "Z", "O", "F", "F", "S", "E", "T", "F", "R", "O", "M", ":",
         "-", "0", "7", "0", "0">>,
      <<"T", "Z", "O", "F", "F", "S", "E", "T", "T", "O", ":", "-", "0",
         "8", "0", "0">>,
      <<"T", "Z", "N", "A", "M", "E", ":", "P", "S", "T">>,
      <<"D", "T", "S", "T", "A", "R", "T", ":", "2", "0", "2", "5", "1",
         "1", "0", "2", "T", "0", "2", "0", "0", "0", "0">>,
      <<"R", "R", "U", "L", "E", ":", "F", "R", "E", "Q", "=", "Y", "E",
         "A", "R", "L", "Y", ";", "B", "Y", "M", "O", "N", "T", "H", "=",
         "1", "1", ";", "B", "Y", "D", "A", "Y", "=", "1", "S", "U">>,
      <<"E", "N", "D", ":", "S", "T", "A", "N", "D", "A", "R", "D">>,
      <<"E", "N", "D", ":", "V", "T", "I", "M", "E", "Z", "O", "N", "E">>>>

BeginEvent == <<"B", "E", "G", "I", "N", ":", "V", "E", "V", "E", "N", "T">>
EndEvent == <<"E", "N", "D", ":", "V", "E", "V", "E", "N", "T">>
EndCalendar == <<"E", "N", "D", ":", "V", "C", "A", "L", "E", "N", "D", "A", "R">>
TzidParam == <<";", "T", "Z", "I", "D", "=", "A", "m", "e", "r", "i", "c", "a", "/", "V", "a", "n", "c", "o", "u", "v", "e", "r", ":">>

\* getCurrentTimestamp(): the UTC time of the call, to the second
CurrentTimestamp == <<"2", "0", "2", "6", "1", "1", "0", "4", "T", "2", "0", "4", "5", "0", "0", "Z">>

\* the lines of one event, none when dtstart or dtend is missing
EventLinesAlways(event) ==
    <<BeginEvent,
      <<"U", "I", "D", ":">> \o event.uid,
      <<"D", "T", "S", "T", "A", "M", "P", ":">> \o CurrentTimestamp,
      <<"D", "T", "S", "T", "A", "R", "T">> \o TzidParam \o Str(event.dtstart),
      <<"D", "T", "E", "N", "D">> \o TzidParam \o Str(event.dtend)>>
    \o (IF Truthy(event.rrule) THEN <<<<"R", "R", "U", "L", "E", ":">> \o event.rrule>> ELSE <<>>)
    \o <<<<"S", "U", "M", "M", "A", "R", "Y", ":">> \o escapeText(event.summary)>>
    \o (IF Truthy(event.description)
        THEN <<<<"D", "E", "S", "C", "R", "I", "P", "T", "I", "O", "N", ":">> \o escapeText(event.description)>> ELSE <<>>)
    \o (IF Truthy(event.location)
        THEN <<<<"L", "O", "C", "A", "T", "I", "O", "N", ":">> \o escapeText(event.location)>> ELSE <<>>)
    \o (IF Truthy(event.categories)
        THEN <<<<"C", "A", "T", "E", "G", "O", "R", "I", "E", "S", ":">> \o event.categories>> ELSE <<>>)
    \o <<<<"S", "T", "A", "T", "U", "S", ":">> \o OrElse(event.status, Confirmed), EndEvent>>

EventLines(event) ==
    IF ~Truthy(event.dtstart) \/ ~Truthy(event.dtend) THEN <<>>
    ELSE EventLinesAlways(event)

RECURSIVE AllEventLines(_)
AllEventLines(events) ==
    IF events = <<>> THEN <<>>
    ELSE EventLines(Head(events)) \o AllEventLines(Tail(events))

CRLF == <<CR, LF>>

buildICSContent(events) ==
    JoinWith(CalendarHeader \o TimezoneBlock \o AllEventLines(events) \o <<EndCalendar>>,
             CRLF)

\* the events that generateICS collects
EventsOf(courseList, ticks) == EventsOfPairs(MeetingPairs(courseList), 0, ticks)

generateICS(courseList, ticks) == buildICSContent(EventsOf(courseList, ticks))

(***************************************************************************)
(* WorkdayCalendarApp: determineTerm, displayCourses, the selection and    *)
(* getSelectedCourses                                                      *)
(***************************************************************************)
\* parseInt(s): the number of the leading digits, as a one-element sequence,
\* or the empty sequence for NaN
ParseInt(s) ==
    IF s = UNDEF THEN <<>>
    ELSE LET i == SkipSpaces(s, 1)
             j == IF CharAt(s, i) = "+" THEN i + 1 ELSE i
             k == SkipChars(s, j, Digits)
         IN  IF k = j THEN <<>> ELSE <<ToNumber(SubSeq(s, j, k - 1))>>

\* parseInt(date.split('-')[1])
MonthOf(date) ==
    LET parts == SplitOn(date, "-")
    IN  ParseInt(IF Len(parts) >= 2 THEN parts[2] ELSE UNDEF)

\* a >= b and a <= b where a may be NaN
AtLeast(a, b) == a # <<>> /\ a[1] >= b
AtMost(a, b) == a # <<>> /\ a[1] <= b

\* a chain that tests for Winter Term 1 before Winter Full Year
TermOfMonthsTermFirst(startMonth, endMonth) ==
    IF AtLeast(startMonth, 9) /\ AtMost(endMonth, 12) THEN "Winter Term 1"
    ELSE IF AtLeast(startMonth, 1) /\ AtMost(startMonth, 4) /\ AtMost(endMonth, 4)
    THEN "Winter Term 2"
    ELSE IF AtLeast(startMonth, 5) /\ AtMost(startMonth, 6) /\ AtMost(endMonth, 6)
    THEN "Summer Term 1"
    ELSE IF AtLeast(startMonth, 7) /\ AtMost(startMonth, 8) THEN "Summer Term 2"
    ELSE IF AtLeast(startMonth, 5) /\ AtLeast(endMonth, 7) THEN "Summer Full Term"
    ELSE ""

\* the chain of month tests, the same for the dates of the course and the
\* dates of its first meeting; "" when no test applies
TermOfMonths(startMonth, endMonth) ==
    IF AtLeast(startMonth, 9) /\ AtLeast(endMonth, 3) /\ AtMost(endMonth, 4)
    THEN "Winter Full Year"
    ELSE IF AtLeast(startMonth, 9) /\ AtMost(endMonth, 12) THEN "Winter Term 1"
    ELSE IF AtLeast(startMonth, 1) /\ AtMost(startMonth, 4) /\ AtMost(endMonth, 4)
    THEN "Winter Term 2"
    ELSE IF AtLeast(startMonth, 5) /\ AtMost(startMonth, 6) /\ AtMost(endMonth, 6)
    THEN "Summer Term 1"
    ELSE IF AtLeast(startMonth, 7) /\ AtMost(startMonth, 8) THEN "Summer Term 2"
    ELSE IF AtLeast(startMonth, 5) /\ AtLeast(endMonth, 7) THEN "Summer Full Term"
    ELSE ""

\* tests that try the bare terms before the summer terms
TermOfStudentTermBareFirst(termInfo) ==
    IF Includes(termInfo, <<"f", "u", "l", "l", " ", "y", "e", "a", "r">>) \/ Includes(termInfo, <<"y", "e", "a", "r", " ", "l", "o", "n", "g">>)
    THEN "Winter Full Year"
    ELSE IF Includes(termInfo, <<"t", "e", "r", "m", " ", "1">>) THEN "Winter Term 1"
    ELSE IF Includes(termInfo, <<"t", "e", "r", "m", " ", "2">>) THEN "Winter Term 2"
    ELSE ""

\* the tests on the lower-case term of the student; "" when none applies
TermOfStudentTerm(termInfo) ==
    IF Includes(termInfo, <<"f", "u", "l", "l", " ", "y", "e", "a", "r">>) \/ Includes(termInfo, <<"y", "e", "a", "r", " ", "l", "o", "n", "g">>)
    THEN "Winter Full Year"
    ELSE IF Includes(termInfo, <<"w", "i", "n", "t", "e", "r">>) /\ Includes(termInfo, <<"t", "e", "r", "m", " ", "1">>)
    THEN "Winter Term 1"
    ELSE IF Includes(termInfo, <<"w", "i", "n", "t", "e", "r">>) /\ Includes(termInfo, <<"t", "e", "r", "m", " ", "2">>)
    THEN "Winter Term 2"
    ELSE IF Includes(termInfo, <<"s", "u", "m", "m", "e", "r">>) /\ Includes(termInfo, <<"t", "e", "r", "m", " ", "1">>)
    THEN "Summer Term 1"
    ELSE IF Includes(termInfo, <<"s", "u", "m", "m", "e", "r">>) /\ Includes(termInfo, <<"t", "e", "r", "m", " ", "2">>)
    THEN "Summer Term 2"
    ELSE IF Includes(termInfo, <<"t", "e", "r", "m", " ", "1">>) THEN "Winter Term 1"
    ELSE IF Includes(termInfo, <<"t", "e", "r", "m", " ", "2">>) THEN "Winter Term 2"
    ELSE ""

determineTerm(course) ==
    LET byStudent ==
            IF course.student # NoStudent /\ Truthy(course.student.term)
            THEN TermOfStudentTerm(ToLowerCase(course.student.term)) ELSE ""
        byDates ==
            IF Truthy(course.startDate) /\ Truthy(course.endDate)
            THEN TermOfMonths(MonthOf(course.startDate), MonthOf(course.endDate)) ELSE ""
        byMeeting ==
            IF /\ Len(course.meetings) > 0
               /\ Truthy(course.meetings[1].startDate)
               /\ Truthy(course.meetings[1].endDate)
            THEN TermOfMonths(MonthOf(course.meetings[1].startDate),
                              MonthOf(course.meetings[1].endDate))
            ELSE ""
    IN  IF byStudent # "" THEN byStudent
        ELSE IF byDates # "" THEN byDates
        ELSE IF byMeeting # "" THEN byMeeting
        ELSE "Other"

RECURSIVE CollapseKeepLast(_)
\* a collapse that keeps the last course of every code
CollapseKeepLast(list) ==
    IF list = <<>> THEN <<>>
    ELSE LET rest == CollapseKeepLast(Tail(list))
         IN  IF \E k \in 1..Len(rest) : rest[k].code = Head(list).code
             THEN rest ELSE <<Head(list)>> \o rest

RECURSIVE CollapseByCode(_)
\* the values of courseMap in insertion order: the first course of every code
CollapseByCode(list) ==
    IF list = <<>> THEN <<>>
    ELSE LET before == CollapseByCode(SubSeq(list, 1, Len(list) - 1))
             course == list[Len(list)]
         IN  IF \E k \in 1..Len(before) : before[k].code = course.code
             THEN before ELSE Append(before, course)

\* the keys of coursesByTerm, in the order of the object
TermGroups ==
    <<"Winter Term 1", "Winter Term 2", "Summer Term 1", "Summer Term 2",
      "Summer Full Term", "Other">>

FullYearSuffix == <<" ", "(", "F", "u", "l", "l", " ", "Y", "e", "a", "r", ")">>

\* a grouping that lists a full-year course under Winter Term 1 only
ItemsOfCourseOnce(course, termName) ==
    LET termInfo == determineTerm(course)
    IN  IF termInfo = "Winter Full Year" /\ termName = "Winter Term 1"
        THEN <<[course |-> course, term |-> termName, isFullYear |-> TRUE,
                displayName |-> Str(course.name) \o FullYearSuffix]>>
        ELSE IF termInfo = termName
        THEN <<[course |-> course, term |-> termName, isFullYear |-> FALSE,
                displayName |-> UNDEF]>>
        ELSE <<>>

\* what displayCourses pushes into the group termName for one course
ItemsOfCourse(course, termName) ==
    LET termInfo == determineTerm(course)
    IN  IF termInfo = "Winter Full Year"
        THEN (IF termName \in {"Winter Term 1", "Winter Term 2"}
              THEN <<[course |-> course, term |-> termName, isFullYear |-> TRUE,
                      displayName |-> Str(course.name) \o FullYearSuffix]>>
              ELSE <<>>)
        ELSE IF termInfo = termName
        THEN <<[course |-> course, term |-> termName, isFullYear |-> FALSE,
                displayName |-> UNDEF]>>
        ELSE <<>>

RECURSIVE ItemsOfTerm(_, _)
\* coursesByTerm[termName] after the loop over courseMap
ItemsOfTerm(map, termName) ==
    IF map = <<>> THEN <<>>
    ELSE ItemsOfTerm(SubSeq(map, 1, Len(map) - 1), termName)
           \o ItemsOfCourse(map[Len(map)], termName)

RECURSIVE ItemsOfGroups(_, _)
\* the course items in index order: group after group
ItemsOfGroups(map, k) ==
    IF k > Len(TermGroups) THEN <<>>
    ELSE ItemsOfTerm(map, TermGroups[k]) \o ItemsOfGroups(map, k + 1)

(***************************************************************************)
(* CalendarView: determineTerm, groupCoursesByTerm, render                 *)
(***************************************************************************)
\* the tests of the grid view on the lower-case term of the student
ViewTermOfStudentTerm(termInfo) ==
    IF Includes(termInfo, <<"w", "i", "n", "t", "e", "r">>) /\ Includes(termInfo, <<"t", "e", "r", "m", " ", "1">>)
    THEN "Winter Term 1"
    ELSE IF Includes(termInfo, <<"w", "i", "n", "t", "e", "r">>) /\ Includes(termInfo, <<"t", "e", "r", "m", " ", "2">>)
    THEN "Winter Term 2"
    ELSE IF Includes(termInfo, <<"s", "u", "m", "m", "e", "r">>) /\ Includes(termInfo, <<"t", "e", "r", "m", " ", "1">>)
    THEN "Summer Term 1"
    ELSE IF Includes(termInfo, <<"s", "u", "m", "m", "e", "r">>) /\ Includes(termInfo, <<"t", "e", "r", "m", " ", "2">>)
    THEN "Summer Term 2"
    ELSE ""

\* the tests of the grid view on the start month of the first meeting
ViewTermOfStartMonth(startMonth) ==
    IF AtLeast(startMonth, 9) THEN "Winter Term 1"
    ELSE IF AtMost(startMonth, 4) THEN "Winter Term 2"
    ELSE IF AtLeast(startMonth, 5) /\ AtMost(startMonth, 6) THEN "Summer Term 1"
    ELSE IF AtLeast(startMonth, 7) /\ AtMost(startMonth, 8) THEN "Summer Term 2"
    ELSE ""

\* CalendarView.determineTerm; its tests on the course dates are those of the
\* list view
ViewDetermineTerm(course) ==
    LET byStudent ==
            IF course.student # NoStudent /\ Truthy(course.student.term)
            THEN ViewTermOfStudentTerm(ToLowerCase(course.student.term)) ELSE ""
        byDates ==
            IF Truthy(course.startDate) /\ Truthy(course.endDate)
            THEN TermOfMonths(MonthOf(course.startDate), MonthOf(course.endDate)) ELSE ""
        byMeeting ==
            IF Len(course.meetings) > 0 /\ Truthy(course.meetings[1].startDate)
            THEN ViewTermOfStartMonth(MonthOf(course.meetings[1].startDate))
            ELSE ""
    IN  IF byStudent # "" THEN byStudent
        ELSE IF byDates # "" THEN byDates
        ELSE IF byMeeting # "" THEN byMeeting
        ELSE "Other"

\* grouped after grouped[term].push(item): a new key goes to the end
PushToGroup(grouped, term, item) ==
    IF \E k \in 1..Len(grouped) : grouped[k].term = term
    THEN [k \in 1..Len(grouped) |->
             IF grouped[k].term = term
             THEN [grouped[k] EXCEPT !.items = Append(@, item)]
             ELSE grouped[k]]
    ELSE Append(grouped, [term |-> term, items |-> <<item>>])

ViewFullYearSuffix == <<" ", "(", "F", "u", "l", "l", " ", "Y", "e", "a", "r", ")">>

RECURSIVE groupCoursesByTerm(_)
\* the keys of grouped in insertion order, each with its list
groupCoursesByTerm(list) ==
    IF list = <<>> THEN <<>>
    ELSE LET grouped == groupCoursesByTerm(SubSeq(list, 1, Len(list) - 1))
             course == list[Len(list)]
             term == ViewDetermineTerm(course)
             Copy(name) == [course |-> course, isFullYear |-> TRUE,
                            displayTerm |-> name \o ViewFullYearSuffix]
         IN  IF term = "Winter Full Year"
             THEN PushToGroup(PushToGroup(grouped, "Winter Term 1",
                                          Copy(<<"W", "i", "n", "t", "e", "r", " ", "T", "e", "r", "m", " ", "1">>)),
                              "Winter Term 2", Copy(<<"W", "i", "n", "t", "e", "r", " ", "T", "e", "r", "m", " ", "2">>))
             ELSE PushToGroup(grouped, term,
                              [course |-> course, isFullYear |-> FALSE,
                               displayTerm |-> UNDEF])

\* the term calendars that render creates: one for each group that is not empty
RenderedGroups(list) ==
    LET grouped == groupCoursesByTerm(list)
        NotEmpty(group) == Len(group.items) > 0 /\ group.term # "Winter Full Year"
    IN  SelectSeq(grouped, NotEmpty)

(***************************************************************************)
(* WorkdayCalendarApp: handleFile, the onload handler, the selection,      *)
(* the exports, reset and switchView                                       *)
(***************************************************************************)
NoFile == <<>>

\* displayCourses with this.courses = list: the list is rebuilt, every index
\* selected, and the grid rendered when it is the current view
displayCourses(list) ==
    /\ courseMap' = CollapseByCode(list)
    /\ courseItems' = ItemsOfGroups(CollapseByCode(list), 1)
    /\ selectedCourses' = 0..(Len(ItemsOfGroups(CollapseByCode(list), 1)) - 1)
    /\ calendarGroups' = IF currentView = "calendar" THEN RenderedGroups(list)
                         ELSE calendarGroups

\* reader.onload of handleFile; result is what parseExcel returns (courses) or
\* raises (error)
onload(result) ==
    IF "error" \in DOMAIN result
    THEN /\ errorShown' = TRUE
         /\ UNCHANGED <<listVars, calendarGroups, previewShown>>
    ELSE /\ appCourses' = result.courses
         /\ IF Len(result.courses) = 0
            THEN /\ errorShown' = TRUE
                 /\ UNCHANGED <<courseMap, courseItems, selectedCourses, calendarGroups,
                                previewShown>>
            ELSE /\ displayCourses(result.courses)
                 /\ previewShown' = TRUE
                 /\ UNCHANGED errorShown

\* the onload handler runs with the parse result arg
OnLoad ==
    /\ fn = "app"
    /\ ~called
    /\ called' = TRUE
    /\ onload([courses |-> arg])
    /\ UNCHANGED <<fn, arg, ret, excelVars, currentView, readVars>>

\* the change handler of the checkbox of the item with this index
ToggleCourse(index) ==
    /\ fn = "app"
    /\ called
    /\ index \in 0..(Len(courseItems) - 1)
    /\ selectedCourses' = IF index \in selectedCourses
                          THEN selectedCourses \ {index}
                          ELSE selectedCourses \cup {index}
    /\ UNCHANGED <<callVars, excelVars, appCourses, courseMap, courseItems, viewVars,
                   readVars, previewShown, errorShown>>

selectAllCourses ==
    /\ fn = "app"
    /\ called
    /\ selectedCourses' = selectedCourses \cup (0..(Len(courseItems) - 1))
    /\ UNCHANGED <<callVars, excelVars, appCourses, courseMap, courseItems, viewVars,
                   readVars, previewShown, errorShown>>

selectNoCourses ==
    /\ fn = "app"
    /\ called
    /\ selectedCourses' = selectedCourses \ (0..(Len(courseItems) - 1))
    /\ UNCHANGED <<callVars, excelVars, appCourses, courseMap, courseItems, viewVars,
                   readVars, previewShown, errorShown>>

RECURSIVE SelectedOf(_, _)
\* the courses of courseMap whose position (0-based) is selected
SelectedOf(map, selected) ==
    IF map = <<>> THEN <<>>
    ELSE SelectedOf(SubSeq(map, 1, Len(map) - 1), selected)
           \o (IF (Len(map) - 1) \in selected THEN <<map[Len(map)]>> ELSE <<>>)

\* the call every export handler starts with; ret is the list the handler goes
\* on with, and an empty list ends the handler with an error message
getSelectedCourses ==
    /\ fn = "app"
    /\ called
    /\ courseMap' = CollapseByCode(appCourses)
    /\ ret' = SelectedOf(CollapseByCode(appCourses), selectedCourses)
    /\ errorShown' = IF SelectedOf(CollapseByCode(appCourses), selectedCourses) = <<>>
                     THEN TRUE ELSE errorShown
    /\ UNCHANGED <<fn, arg, called, excelVars, appCourses, courseItems, selectedCourses,
                   viewVars, readVars, previewShown>>

\* the list and calendar buttons
switchView(view) ==
    /\ fn = "app"
    /\ called
    /\ currentView' = view
    /\ calendarGroups' = IF view = "calendar" /\ Len(appCourses) > 0
                         THEN RenderedGroups(appCourses) ELSE calendarGroups
    /\ UNCHANGED <<callVars, excelVars, listVars, readVars, previewShown, errorShown>>

\* the test /\.(xlsx|xls)$/i on the name of a file
IsExcelName(name) ==
    LET lower == ToLowerCase(name)
        EndsIn(suffix) ==
            Len(lower) >= Len(suffix)
              /\ SubSeq(lower, Len(lower) - Len(suffix) + 1, Len(lower)) = suffix
    IN  EndsIn(<<".", "x", "l", "s", "x">>) \/ EndsIn(<<".", "x", "l", "s">>)

\* a sequence without its element at position i
RemoveAt(s, i) == SubSeq(s, 1, i - 1) \o SubSeq(s, i + 1, Len(s))

\* handleFile up to reader.readAsArrayBuffer(file): a name that is no Excel
\* name ends the call with an error message, any other starts a read
handleFile(file) ==
    /\ fn = "reads"
    /\ chosenFile' = file
    /\ IF ~IsExcelName(file)
       THEN /\ errorShown' = TRUE
            /\ UNCHANGED pendingReads
       ELSE /\ errorShown' = FALSE
            /\ pendingReads' = Append(pendingReads, file)
    /\ UNCHANGED <<callVars, excelVars, listVars, viewVars, previewShown>>

\* the read at position i of the reads in flight completes and reader.onload
\* runs with what parseExcel makes of the file
ReadCompletes(i, result) ==
    /\ fn = "reads"
    /\ i \in 1..Len(pendingReads)
    /\ pendingReads' = RemoveAt(pendingReads, i)
    /\ onload(result)
    /\ UNCHANGED <<callVars, excelVars, currentView, chosenFile>>

\* the read at position i fails and reader.onerror runs
ReadFails(i) ==
    /\ fn = "reads"
    /\ i \in 1..Len(pendingReads)
    /\ pendingReads' = RemoveAt(pendingReads, i)
    /\ errorShown' = TRUE
    /\ UNCHANGED <<callVars, excelVars, listVars, viewVars, chosenFile, previewShown>>

\* the reset button: the reads in flight go on
reset ==
    /\ fn = "reads"
    /\ appCourses' = <<>>
    /\ selectedCourses' = {}
    /\ chosenFile' = NoFile
    /\ previewShown' = FALSE
    /\ errorShown' = FALSE
    /\ courseItems' = <<>>
    /\ UNCHANGED <<callVars, excelVars, courseMap, viewVars, pendingReads>>

(***************************************************************************)
(* Idle values of the variables a specification does not use               *)
(***************************************************************************)
ExcelIdle ==
    /\ pc = "idle"
    /\ rowIdx = 0
    /\ currentStudent = NoStudent
    /\ courses = <<>>
    /\ parsedRows = <<>>
    /\ checksDone = <<>>

\* the application before a file is loaded
AppIdle ==
    /\ appCourses = <<>>
    /\ courseMap = <<>>
    /\ courseItems = <<>>
    /\ selectedCourses = {}
    /\ currentView = "list"
    /\ calendarGroups = <<>>
    /\ pendingReads = <<>>
    /\ chosenFile = NoFile
    /\ previewShown = FALSE
    /\ errorShown = FALSE

(***************************************************************************)
(* Specification SpecEscape: escapeText applied to one text                *)
(***************************************************************************)
MaxTextLen == 3
EscChars == {BS, ";", ",", LF, CR, "n", "a"}

InitEscape ==
    /\ fn = "escapeText"
    /\ arg \in TextsUpTo(EscChars, MaxTextLen)
    /\ called = FALSE
    /\ ret = <<>>
    /\ ExcelIdle
    /\ AppIdle

CallEscapeText ==
    /\ fn = "escapeText"
    /\ ~called
    /\ called' = TRUE
    /\ ret' = escapeText(arg)
    /\ UNCHANGED <<fn, arg, excelVars, appVars>>

NextEscape == CallEscapeText

SpecEscape == InitEscape /\ [][NextEscape]_vars

RECURSIVE WellEscaped(_)
\* Read left to right, the text is made of escape pairs (a backslash followed
\* by a backslash, a semicolon, a comma or the letter n) and of characters
\* that need no escape.
WellEscaped(s) ==
    IF s = <<>> THEN TRUE
    ELSE IF Head(s) = BS
         THEN /\ Len(s) >= 2
              /\ s[2] \in {BS, ";", ",", "n"}
              /\ WellEscaped(Tail(Tail(s)))
    ELSE /\ Head(s) \notin {";", ",", LF, CR}
         /\ WellEscaped(Tail(s))

\* C10: one application of escapeText leaves no semicolon or comma without an
\* escaping backslash before it, no backslash outside an escape pair, no raw
\* newline and no carriage return.
C10_EscapedOutput ==
    (fn = "escapeText" /\ called) => WellEscaped(ret)

C10_Witness ==
    /\ fn = "escapeText"
    /\ called
    /\ arg = <<BS, CR, ";">>
    /\ ret = <<BS, BS, BS, ";">>

(***************************************************************************)
(* Specification SpecFirstOcc: getFirstOccurrence applied to one start     *)
(* date, one day list and one time                                         *)
(***************************************************************************)
NumYears == 2
FirstOccYears == 2024..(2023 + NumYears)
FirstOccMonths == {2, 9, 12}
FirstOccTimes == {<<"1", "4", ":", "0", "0">>, <<"0", "9", ":", "0", "5">>}

IsoDate(y, m, d) ==
    NumToText(y) \o <<"-">> \o PadStart2(NumToText(m)) \o <<"-">> \o PadStart2(NumToText(d))

RECURSIVE DaysOfIndices(_)
\* the weekday codes of a set of positions of WeekdayCodes, in table order
DaysOfIndices(S) ==
    IF S = {} THEN <<>>
    ELSE LET k == CHOOSE j \in S : \A h \in S : j <= h
         IN  <<WeekdayCodes[k]>> \o DaysOfIndices(S \ {k})

DayLists == {DaysOfIndices(S) : S \in (SUBSET (1..7)) \ {{}}}

FirstOccInputs ==
    {[startDate |-> IsoDate(y, m, d), days |-> ds, time |-> t] :
        y \in FirstOccYears, m \in FirstOccMonths, d \in 1..31, ds \in DayLists,
        t \in FirstOccTimes}

InitFirstOcc ==
    /\ fn = "getFirstOccurrence"
    /\ arg \in {a \in FirstOccInputs :
                  ToNumber(SubSeq(a.startDate, 9, 10))
                    <= DaysInMonth(ToNumber(SubSeq(a.startDate, 1, 4)),
                                   ToNumber(SubSeq(a.startDate, 6, 7)))}
    /\ called = FALSE
    /\ ret = <<>>
    /\ ExcelIdle
    /\ AppIdle

CallGetFirstOccurrence ==
    /\ fn = "getFirstOccurrence"
    /\ ~called
    /\ called' = TRUE
    /\ ret' = getFirstOccurrence(arg.startDate, arg.days, arg.time)
    /\ UNCHANGED <<fn, arg, excelVars, appVars>>

NextFirstOcc == CallGetFirstOccurrence

SpecFirstOcc == InitFirstOcc /\ [][NextFirstOcc]_vars

\* the calendar day written as YYYY-MM-DD or YYYYMMDD at the head of a text
DateOfIso(s) ==
    [y |-> ToNumber(SubSeq(s, 1, 4)), m |-> ToNumber(SubSeq(s, 6, 7)),
     d |-> ToNumber(SubSeq(s, 9, 10))]

DateOfBasic(s) ==
    [y |-> ToNumber(SubSeq(s, 1, 4)), m |-> ToNumber(SubSeq(s, 5, 6)),
     d |-> ToNumber(SubSeq(s, 7, 8))]

IsCalendarDay(date) ==
    date.m \in 1..12 /\ date.d \in 1..DaysInMonth(date.y, date.m)

DayNumbersOf(days) == {calendarDayMap(days[k]) : k \in 1..Len(days)}

\* C3: for a non-empty day list, getFirstOccurrence returns the earliest
\* calendar day on or after startDate whose weekday is in the list (a shift of
\* 0 to 6 days), then 'T' and the time as HHMM00, and nothing after it.
C3_FirstOccurrence ==
    (fn = "getFirstOccurrence" /\ called) =>
        /\ Len(ret) = 15
        /\ IsDigits(SubSeq(ret, 1, 8))
        /\ LET start == DateOfIso(arg.startDate)
               first == DateOfBasic(ret)
               shift == DayNumber(first) - DayNumber(start)
               wanted == DayNumbersOf(arg.days)
           IN  /\ IsCalendarDay(first)
               /\ shift \in 0..6
               /\ (getDay(start) + shift) % 7 \in wanted
               /\ \A j \in 0..(shift - 1) : (getDay(start) + j) % 7 \notin wanted
        /\ ret[9] = "T"
        /\ SubSeq(ret, 10, 15)
             = <<arg.time[1], arg.time[2], arg.time[4], arg.time[5], "0", "0">>

\* the spec's example (2025-09-02 is a Tuesday), and a shift across a year end
C3_Witness ==
    /\ fn = "getFirstOccurrence"
    /\ called
    /\ arg.startDate = <<"2", "0", "2", "5", "-", "0", "9", "-", "0", "2">>
    /\ arg.days = <<TU, TH>>
    /\ arg.time = <<"1", "4", ":", "0", "0">>
    /\ ret = <<"2", "0", "2", "5", "0", "9", "0", "2", "T", "1", "4", "0", "0", "0", "0">>

C3_WitnessShift ==
    /\ fn = "getFirstOccurrence"
    /\ called
    /\ arg.startDate = <<"2", "0", "2", "4", "-", "1", "2", "-", "3", "1">>
    /\ arg.days = <<MO, SU>>
    /\ SubSeq(ret, 1, 8) = <<"2", "0", "2", "5", "0", "1", "0", "5">>

(***************************************************************************)
(* Specification SpecMeetings: parseMeetingPatterns applied to one cell    *)
(***************************************************************************)
MaxLines == 3

\* '2026-01-05 - 2026-02-11 | Mon Wed | 12:30 p.m. - 2:00 p.m. | UBCV | Floor: 3 | Room: 301'
LineTermA ==
    <<"2", "0", "2", "6", "-", "0", "1", "-", "0", "5", " ", "-", " ", "2",
      "0", "2", "6", "-", "0", "2", "-", "1", "1", " ", "|", " ", "M", "o",
      "n", " ", "W", "e", "d", " ", "|", " ", "1", "2", ":", "3", "0", " ",
      "p", ".", "m", ".", " ", "-", " ", "2", ":", "0", "0", " ", "p", ".",
      "m", ".", " ", "|", " ", "U", "B", "C", "V", " ", "|", " ", "F", "l",
      "o", "o", "r", ":", " ", "3", " ", "|", " ", "R", "o", "o", "m", ":",
      " ", "3", "0", "1">>

\* '2026-02-23 - 2026-04-08 | Mon Wed | 12:30 p.m. - 2:00 p.m. | UBCV | Floor: 3 | Room: 301'
LineTermB ==
    <<"2", "0", "2", "6", "-", "0", "2", "-", "2", "3", " ", "-", " ", "2",
      "0", "2", "6", "-", "0", "4", "-", "0", "8", " ", "|", " ", "M", "o",
      "n", " ", "W", "e", "d", " ", "|", " ", "1", "2", ":", "3", "0", " ",
      "p", ".", "m", ".", " ", "-", " ", "2", ":", "0", "0", " ", "p", ".",
      "m", ".", " ", "|", " ", "U", "B", "C", "V", " ", "|", " ", "F", "l",
      "o", "o", "r", ":", " ", "3", " ", "|", " ", "R", "o", "o", "m", ":",
      " ", "3", "0", "1">>

\* ''
LineEmpty ==
    <<>>

\* ' \r'
LineSpaces ==
    <<" ", CR>>

\* 'Online | Asynchronous'
LineNotice ==
    <<"O", "n", "l", "i", "n", "e", " ", "|", " ", "A", "s", "y", "n", "c",
      "h", "r", "o", "n", "o", "u", "s">>

\* '2026-01-05 - 2026-02-11 | Tue | 9:00 AM - 10:00 AM | UBCV'
LineUpperCasePeriods ==
    <<"2", "0", "2", "6", "-", "0", "1", "-", "0", "5", " ", "-", " ", "2",
      "0", "2", "6", "-", "0", "2", "-", "1", "1", " ", "|", " ", "T", "u",
      "e", " ", "|", " ", "9", ":", "0", "0", " ", "A", "M", " ", "-", " ",
      "1", "0", ":", "0", "0", " ", "A", "M", " ", "|", " ", "U", "B", "C",
      "V">>

\* 'TBA | Tue Thu | 9:00 a.m. - 10:00 a.m.'
LineNoDates ==
    <<"T", "B", "A", " ", "|", " ", "T", "u", "e", " ", "T", "h", "u", " ",
      "|", " ", "9", ":", "0", "0", " ", "a", ".", "m", ".", " ", "-", " ",
      "1", "0", ":", "0", "0", " ", "a", ".", "m", ".">>

\* '2026-01-05 - 2026-02-11 | 9:00 a.m. - 10:00 a.m.'
LineTwoFields ==
    <<"2", "0", "2", "6", "-", "0", "1", "-", "0", "5", " ", "-", " ", "2",
      "0", "2", "6", "-", "0", "2", "-", "1", "1", " ", "|", " ", "9", ":",
      "0", "0", " ", "a", ".", "m", ".", " ", "-", " ", "1", "0", ":", "0",
      "0", " ", "a", ".", "m", ".">>

\* 'x 2026-01-05-2026-02-11 || at 9:00a.m.-10:00a.m.'
LineNoDays ==
    <<"x", " ", "2", "0", "2", "6", "-", "0", "1", "-", "0", "5", "-", "2",
      "0", "2", "6", "-", "0", "2", "-", "1", "1", " ", "|", "|", " ", "a",
      "t", " ", "9", ":", "0", "0", "a", ".", "m", ".", "-", "1", "0", ":",
      "0", "0", "a", ".", "m", ".">>

\* '2025-09-02 - 2025-12-04 | Tue | 13:30 p.m. - 9:75 p.m. | UBCV'
LineLateHour ==
    <<"2", "0", "2", "5", "-", "0", "9", "-", "0", "2", " ", "-", " ", "2",
      "0", "2", "5", "-", "1", "2", "-", "0", "4", " ", "|", " ", "T", "u",
      "e", " ", "|", " ", "1", "3", ":", "3", "0", " ", "p", ".", "m", ".",
      " ", "-", " ", "9", ":", "7", "5", " ", "p", ".", "m", ".", " ", "|",
      " ", "U", "B", "C", "V">>

MeetingLines ==
    {LineTermA, LineTermB, LineEmpty, LineSpaces, LineNotice, LineUpperCasePeriods,
     LineNoDates, LineTwoFields, LineNoDays, LineLateHour}

MeetingCells ==
    {JoinWith(ls, <<LF>>) : ls \in UNION {[1..k -> MeetingLines] : k \in 1..MaxLines}}

InitMeetings ==
    /\ fn = "parseMeetingPatterns"
    /\ arg \in MeetingCells \cup {NULL, NumberCell}
    /\ called = FALSE
    /\ ret = <<>>
    /\ ExcelIdle
    /\ AppIdle

CallParseMeetingPatterns ==
    /\ fn = "parseMeetingPatterns"
    /\ ~called
    /\ called' = TRUE
    /\ ret' = parseMeetingPatterns(arg)
    /\ UNCHANGED <<fn, arg, excelVars, appVars>>

NextMeetings == CallParseMeetingPatterns

SpecMeetings == InitMeetings /\ [][NextMeetings]_vars

\* the pipe-separated fields of a line, trimmed
FieldsOf(line) ==
    LET split == SplitOn(line, "|") IN [k \in 1..Len(split) |-> Trim(split[k])]

\* a line of the form dateRange | days | timeRange | ...: at least three
\* fields, a date range in the first and a time range in the third
HasDateAndTimeRange(line) ==
    /\ Len(FieldsOf(line)) >= 3
    /\ \E i \in 1..Len(FieldsOf(line)[1]) : DateRangeAt(FieldsOf(line)[1], i) > 0
    /\ \E i \in 1..Len(FieldsOf(line)[3]) : TimeRangeAt(FieldsOf(line)[3], i) # NULL

IsBlank(line) == \A k \in 1..Len(line) : line[k] \in WhiteSpace

RECURSIVE SelectMeetingLines(_)
SelectMeetingLines(lines) ==
    IF lines = <<>> THEN <<>>
    ELSE (IF ~IsBlank(Head(lines)) /\ HasDateAndTimeRange(Head(lines))
          THEN <<Head(lines)>> ELSE <<>>) \o SelectMeetingLines(Tail(lines))

\* the first two YYYY-MM-DD dates written in a line
DatesWrittenIn(line) ==
    LET at == {i \in 1..Len(line) : IsoDateAt(line, i)}
        first == Leftmost(at)
        second == Leftmost({i \in at : i >= first + 10})
    IN  <<SubSeq(line, first, first + 9), SubSeq(line, second, second + 9)>>

\* C5: parseMeetingPatterns returns one Meeting for each non-blank line that
\* has a date range (first field) and a time range (third field), none for
\* any other line, in line order, each with the two dates of its own line.
C5_OneMeetingPerLine ==
    (fn = "parseMeetingPatterns" /\ called /\ IsString(arg)) =>
        LET expected == SelectMeetingLines(SplitOn(arg, LF))
        IN  /\ Len(ret) = Len(expected)
            /\ \A k \in 1..Len(expected) :
                 /\ ret[k].startDate = DatesWrittenIn(expected[k])[1]
                 /\ ret[k].endDate = DatesWrittenIn(expected[k])[2]

\* the reading-break cell of the test suite: two blocks, a blank line between
C5_Witness ==
    /\ fn = "parseMeetingPatterns"
    /\ called
    /\ arg = LineTermA \o <<LF, LF>> \o LineTermB
    /\ Len(ret) = 2
    /\ ret[1].endDate = <<"2", "0", "2", "6", "-", "0", "2", "-", "1", "1">>
    /\ ret[2].startDate = <<"2", "0", "2", "6", "-", "0", "2", "-", "2", "3">>
    /\ ret[1].days = ret[2].days
    /\ ret[1].startTime = ret[2].startTime

(***************************************************************************)
(* The cells of the model's grids                                          *)
(***************************************************************************)
\* 'COMP_V 101 - Introduction to Computing'
TxtListingComp ==
    <<"C", "O", "M", "P", "_", "V", " ", "1", "0", "1", " ", "-", " ", "I",
      "n", "t", "r", "o", "d", "u", "c", "t", "i", "o", "n", " ", "t", "o",
      " ", "C", "o", "m", "p", "u", "t", "i", "n", "g">>

\* 'CPSC_V 430 – Computers and Society'
TxtListingCpsc ==
    <<"C", "P", "S", "C", "_", "V", " ", "4", "3", "0", " ", ENDASH, " ",
      "C", "o", "m", "p", "u", "t", "e", "r", "s", " ", "a", "n", "d", " ",
      "S", "o", "c", "i", "e", "t", "y">>

\* ' MATH_V 200 - Calculus III '
TxtListingMath ==
    <<" ", "M", "A", "T", "H", "_", "V", " ", "2", "0", "0", " ", "-", " ",
      "C", "a", "l", "c", "u", "l", "u", "s", " ", "I", "I", "I", " ">>

\* 'xPHYS_V  117—Dynamics'
TxtListingPhys ==
    <<"x", "P", "H", "Y", "S", "_", "V", " ", " ", "1", "1", "7", EMDASH,
      "D", "y", "n", "a", "m", "i", "c", "s">>

\* 'COMP_V TBA'
TxtListingNoNumber ==
    <<"C", "O", "M", "P", "_", "V", " ", "T", "B", "A">>

\* 'COMP_V\t101 - Tabbed'
TxtListingTab ==
    <<"C", "O", "M", "P", "_", "V", TAB, "1", "0", "1", " ", "-", " ", "T",
      "a", "b", "b", "e", "d">>

\* 'Total Credits'
TxtTotal ==
    <<"T", "o", "t", "a", "l", " ", "C", "r", "e", "d", "i", "t", "s">>

\* '3'
TxtCredits3 ==
    <<"3">>

\* '4'
TxtCredits4 ==
    <<"4">>

\* 'Graded'
TxtGraded ==
    <<"G", "r", "a", "d", "e", "d">>

\* 'COMP_V 101-001'
TxtSectionComp ==
    <<"C", "O", "M", "P", "_", "V", " ", "1", "0", "1", "-", "0", "0", "1">>

\* 'CPSC_V 430-101'
TxtSectionCpsc ==
    <<"C", "P", "S", "C", "_", "V", " ", "4", "3", "0", "-", "1", "0", "1">>

\* 'Registered'
TxtRegistered ==
    <<"R", "e", "g", "i", "s", "t", "e", "r", "e", "d">>

\* 'Lecture'
TxtLecture ==
    <<"L", "e", "c", "t", "u", "r", "e">>

\* 'In Person Learning'
TxtInPerson ==
    <<"I", "n", " ", "P", "e", "r", "s", "o", "n", " ", "L", "e", "a", "r",
      "n", "i", "n", "g">>

\* '2025-09-02 - 2025-12-04 | Mon Wed Fri | 9:00 a.m. - 10:00 a.m. | UBCV | Building | Floor: 1 | Room: 101'
TxtPatternComp ==
    <<"2", "0", "2", "5", "-", "0", "9", "-", "0", "2", " ", "-", " ", "2",
      "0", "2", "5", "-", "1", "2", "-", "0", "4", " ", "|", " ", "M", "o",
      "n", " ", "W", "e", "d", " ", "F", "r", "i", " ", "|", " ", "9", ":",
      "0", "0", " ", "a", ".", "m", ".", " ", "-", " ", "1", "0", ":", "0",
      "0", " ", "a", ".", "m", ".", " ", "|", " ", "U", "B", "C", "V", " ",
      "|", " ", "B", "u", "i", "l", "d", "i", "n", "g", " ", "|", " ", "F",
      "l", "o", "o", "r", ":", " ", "1", " ", "|", " ", "R", "o", "o", "m",
      ":", " ", "1", "0", "1">>

\* 'Dr. Jane Smith'
TxtJaneSmith ==
    <<"D", "r", ".", " ", "J", "a", "n", "e", " ", "S", "m", "i", "t", "h">>

\* 'A. Turing'
TxtTuring ==
    <<"A", ".", " ", "T", "u", "r", "i", "n", "g">>

\* '2025-09-02'
TxtDateSep02 ==
    <<"2", "0", "2", "5", "-", "0", "9", "-", "0", "2">>

\* '2025-12-04'
TxtDateDec04 ==
    <<"2", "0", "2", "5", "-", "1", "2", "-", "0", "4">>

\* '2026-01-05 00:00:00'
TxtDateJan05 ==
    <<"2", "0", "2", "6", "-", "0", "1", "-", "0", "5", " ", "0", "0", ":",
      "0", "0", ":", "0", "0">>

\* '2026-04-08'
TxtDateApr08 ==
    <<"2", "0", "2", "6", "-", "0", "4", "-", "0", "8">>

\* 'TBA'
TxtTBA ==
    <<"T", "B", "A">>

\* 'Test Student (12345678) - Fall 2025'
TxtStudentLabel ==
    <<"T", "e", "s", "t", " ", "S", "t", "u", "d", "e", "n", "t", " ", "(",
      "1", "2", "3", "4", "5", "6", "7", "8", ")", " ", "-", " ", "F", "a",
      "l", "l", " ", "2", "0", "2", "5">>

\* 'Ada Lovelace(42) -Winter Term 2'
TxtStudentLabelB ==
    <<"A", "d", "a", " ", "L", "o", "v", "e", "l", "a", "c", "e", "(", "4",
      "2", ")", " ", "-", "W", "i", "n", "t", "e", "r", " ", "T", "e", "r",
      "m", " ", "2">>

\* 'Course Listing'
TxtCourseListing ==
    <<"C", "o", "u", "r", "s", "e", " ", "L", "i", "s", "t", "i", "n", "g">>

\* 'Drop'
TxtDrop ==
    <<"D", "r", "o", "p">>

\* 'Swap'
TxtSwap ==
    <<"S", "w", "a", "p">>

\* 'Grading Basis'
TxtGradingBasis ==
    <<"G", "r", "a", "d", "i", "n", "g", " ", "B", "a", "s", "i", "s">>

\* 'My Enrolled Courses'
TxtMyCourses ==
    <<"M", "y", " ", "E", "n", "r", "o", "l", "l", "e", "d", " ", "C", "o",
      "u", "r", "s", "e", "s">>

TxtPatternBreak == LineTermA \o <<LF, LF>> \o LineTermB

\* the header list of the test suite, in a grid of 14 columns
HeadersTest ==
    <<TxtCourseListing, TxtDrop, TxtSwap, HeaderCredits, TxtGradingBasis, HeaderSection,
      HeaderStatus, HeaderFormat, HeaderDelivery, HeaderMeetings, HeaderInstructor,
      HeaderStartDate, HeaderEndDate, NULL>>

\* the same headers one column to the right, over the columns of the data
HeadersShifted ==
    <<NULL, TxtCourseListing, TxtDrop, TxtSwap, HeaderCredits, TxtGradingBasis,
      HeaderSection, HeaderStatus, HeaderFormat, HeaderDelivery, HeaderMeetings,
      HeaderInstructor, HeaderStartDate, HeaderEndDate>>

\* a row that is no header row of a schedule export
HeadersOther ==
    <<TxtMyCourses, NULL, TxtDrop, HeaderCredits, NULL, NULL, NULL, NULL, NULL, NULL,
      NULL, NULL, NULL, NULL>>

\* a header row with a numeric cell
HeadersNumber == [HeadersTest EXCEPT ![14] = NumberCell]

\* the header list of the test suite with white space around two headers
HeadersPadded ==
    [HeadersTest EXCEPT ![4] = <<" ", " ", "C", "r", "e", "d", "i", "t", "s", " ">>,
                        ![11] = <<"I", "n", "s", "t", "r", "u", "c", "t", "o", "r", " ">>]

\* the row of the test suite: every value under its header
RowTest ==
    <<NULL, TxtListingComp, NULL, TxtCredits3, TxtGraded, TxtSectionComp, TxtRegistered,
      TxtLecture, TxtInPerson, TxtPatternComp, TxtJaneSmith, TxtDateSep02, TxtDateDec04,
      NULL>>

\* a row under the test suite's headers whose fixed-index cells are empty
RowSparse ==
    <<NULL, TxtListingComp, NULL, TxtCredits3, NULL, TxtSectionComp, NULL, NULL, NULL,
      TxtPatternComp, <<>>, NULL, NULL, NULL>>

\* the rows of an export: the student label in column 0 of the first row of a
\* block, every value one column to the right of its header
RowExport ==
    <<TxtStudentLabel, TxtListingCpsc, NULL, NULL, TxtCredits4, TxtGraded, TxtSectionCpsc,
      TxtRegistered, TxtLecture, TxtInPerson, TxtPatternBreak, TxtTuring, TxtDateJan05,
      TxtDateApr08>>

RowContinuation ==
    <<NULL, TxtListingMath, NULL, NULL, TxtCredits3, TxtGraded, NULL, TxtRegistered,
      TxtLecture, TxtInPerson, LineNoDays, TxtJaneSmith, TxtTBA, NULL>>

RowSecondStudent ==
    <<TxtStudentLabelB, TxtListingPhys, NULL, NULL, NumberCell, TxtGraded, NULL,
      TxtRegistered, NULL, NULL, NumberCell, NULL, DateCell, NumberCell>>

RowBlank == [k \in 1..14 |-> NULL]

RowSummary == [RowBlank EXCEPT ![2] = TxtTotal, ![5] = TxtCredits4]

RowNoNumber == [RowContinuation EXCEPT ![2] = TxtListingNoNumber]

RowTab == [RowContinuation EXCEPT ![2] = TxtListingTab]

\* a row with a number in column 0
RowNumberFirst == [RowContinuation EXCEPT ![1] = NumberCell]

\* a student label on a row without a listing
RowLabelOnly == [RowBlank EXCEPT ![1] = TxtStudentLabelB]

\* a course row whose first cell is a text in parentheses that is no label
RowNote == [RowContinuation EXCEPT ![1] = <<"T", "o", "t", "a", "l", " ", "(", "2", " ", "c", "o", "u", "r", "s", "e", "s", ")">>]

DataRows ==
    {RowTest, RowSparse, RowExport, RowContinuation, RowSecondStudent, RowBlank,
     RowSummary, RowNoNumber, RowTab, RowNumberFirst, RowLabelOnly, RowNote}

HeaderRows == {HeadersTest, HeadersShifted, HeadersOther, HeadersNumber, HeadersPadded}

StudentCurrent ==
    [name |-> <<"T", "e", "s", "t">>, id |-> <<"1">>, term |-> <<"T", "1">>]

(***************************************************************************)
(* Specification SpecRow: parseCourseRow applied to one row                *)
(***************************************************************************)
TypeError == [error |-> "TypeError"]

InitRow ==
    /\ fn = "parseCourseRow"
    /\ arg \in [row : DataRows, headers : HeaderRows, studentInfo : {NoStudent, StudentCurrent}]
    /\ called = FALSE
    /\ ret = <<>>
    /\ ExcelIdle
    /\ AppIdle

CallParseCourseRow ==
    /\ fn = "parseCourseRow"
    /\ ~called
    /\ called' = TRUE
    /\ ret' = IF parseCourseRowThrows(arg.row, arg.headers) THEN TypeError
              ELSE parseCourseRow(arg.row, arg.headers, arg.studentInfo)
    /\ UNCHANGED <<fn, arg, excelVars, appVars>>

NextRow == CallParseCourseRow

SpecRow == InitRow /\ [][NextRow]_vars

\* the cell of a row in the column whose header is name
CellUnder(row, headers, name) ==
    LET at == {k \in 1..Len(headers) : headers[k] = name}
    IN  IF at = {} THEN NULL ELSE row[CHOOSE k \in at : TRUE]

\* an absent cell and the empty text are one value
TextOf(x) == IF x = NULL \/ x = UNDEF THEN <<>> ELSE x

\* C4 (as claimed): under the header list of the test suite, a row whose
\* listing cell is 'LETTERS_V DIGITS - TITLE' and whose values sit in the
\* columns of their headers gives a Course with that code and title, the
\* credits of the Credits cell, the instructor of the Instructor cell, and at
\* least one Meeting when the Meeting Patterns cell is a valid pattern.
C4_RowUnderHeaders ==
    (/\ fn = "parseCourseRow"
     /\ called
     /\ arg.headers = HeadersTest
     /\ arg.row[2] = TxtListingComp) =>
        /\ ret # TypeError
        /\ ret.code = <<"C", "O", "M", "P", " ", "1", "0", "1">>
        /\ ret.name = SubSeq(TxtListingComp, 14, Len(TxtListingComp))
        /\ TextOf(ret.credits) = TextOf(CellUnder(arg.row, HeadersTest, HeaderCredits))
        /\ TextOf(ret.instructor)
             = TextOf(CellUnder(arg.row, HeadersTest, HeaderInstructor))
        /\ (CellUnder(arg.row, HeadersTest, HeaderMeetings) = TxtPatternComp
              => Len(ret.meetings) >= 1)

\* what the code returns for the row of the test suite
C4_CodeOnTestRow ==
    (/\ fn = "parseCourseRow"
     /\ called
     /\ arg.headers = HeadersTest
     /\ arg.row = RowTest) =>
        /\ ret.code = <<"C", "O", "M", "P", " ", "1", "0", "1">>
        /\ ret.credits = TxtGraded
        /\ ret.instructor = TxtDateSep02
        /\ ret.meetings = <<>>

(***************************************************************************)
(* Specification SpecExcel: parseExcel on one grid (the rows that the      *)
(* worksheet is read into)                                                 *)
(***************************************************************************)
MaxDataRows == 2

\* a grid: four or five rows above the header row, a header row, data rows
Grids ==
    {[k \in 1..nPre |-> RowBlank] \o <<headers>> \o data :
        nPre \in {headerRow - 2, headerRow - 1},
        headers \in HeaderRows,
        data \in UNION {[1..n -> DataRows] : n \in 0..MaxDataRows}}

InitExcel ==
    /\ fn = "parseExcel"
    /\ arg \in Grids
    /\ called = FALSE
    /\ ret = <<>>
    /\ pc = "rowCount"
    /\ rowIdx = 0
    /\ currentStudent = NoStudent
    /\ courses = <<>>
    /\ parsedRows = <<>>
    /\ checksDone = <<>>
    /\ AppIdle

NextExcel ==
    \/ CheckRowCount
    \/ CheckHeaders
    \/ ProcessRow
    \/ ReturnCourses

SpecExcel == InitExcel /\ [][NextExcel]_vars

\* the text matches LETTERS '_V' white space DIGITS dash TITLE somewhere, the
\* dash being a hyphen, an en dash or an em dash and TITLE not blank
MatchesIdentityPattern(s) ==
    \E m \in 2..Len(s) :
        /\ s[m - 1] \in UpperCase
        /\ StartsWithAt(s, m, <<"_", "V">>)
        /\ \E n \in (m + 3)..Len(s) :
             /\ \A h \in (m + 2)..(n - 1) : s[h] \in WhiteSpace
             /\ s[n] \in Digits
             /\ \E d \in (n + 1)..Len(s) :
                  /\ \A h \in n..(d - 1) : s[h] \in Digits
                  /\ \E dash \in d..Len(s) :
                       /\ \A h \in d..(dash - 1) : s[h] \in WhiteSpace
                       /\ s[dash] \in {"-", ENDASH, EMDASH}
                       /\ \E t \in (dash + 1)..Len(s) :
                            /\ \A h \in (dash + 1)..(t - 1) : s[h] \in WhiteSpace
                            /\ s[t] \notin WhiteSpace

\* the text of the listing cell (index 1) of a row
ListingOf(row) == IF Truthy(row[2]) THEN StringOf(row[2]) ELSE <<>>

Contributes(row) ==
    /\ Includes(ListingOf(row), <<"_", "V", " ">>)
    /\ MatchesIdentityPattern(ListingOf(row))

RECURSIVE SelectContributing(_)
SelectContributing(rows) ==
    IF rows = <<>> THEN <<>>
    ELSE (IF Contributes(Head(rows)) THEN <<Head(rows)>> ELSE <<>>)
           \o SelectContributing(Tail(rows))

\* code is LETTERS, one space, DIGITS, and the listing holds LETTERS_V and DIGITS
IsCodeOf(code, listing) ==
    \E k \in 2..(Len(code) - 1) :
        /\ \A h \in 1..(k - 1) : code[h] \in UpperCase
        /\ code[k] = " "
        /\ \A h \in (k + 1)..Len(code) : code[h] \in Digits
        /\ Includes(listing, SubSeq(code, 1, k - 1) \o <<"_", "V">>)
        /\ Includes(listing, SubSeq(code, k + 1, Len(code)))

DataRowsOf(grid) == SubSeq(grid, dataStartRow, Len(grid))

Returned == fn = "parseExcel" /\ called /\ "courses" \in DOMAIN ret
Failed == fn = "parseExcel" /\ called /\ "error" \in DOMAIN ret

\* C6: in a list that parseExcel returns, the Courses are those of the data
\* rows whose listing cell contains '_V ' and matches the identity pattern, one
\* per row and in row order, each with a code of the form 'LETTERS DIGITS'.
C6_CoursesOfMatchingRows ==
    Returned =>
        LET expected == SelectContributing(DataRowsOf(arg))
        IN  /\ Len(ret.courses) = Len(expected)
            /\ \A j \in 1..Len(expected) :
                 IsCodeOf(ret.courses[j].code, ListingOf(expected[j]))

\* a row with the sentinel and no number is left out, the next row is kept
C6_Witness ==
    /\ Returned
    /\ DataRowsOf(arg) = <<RowNoNumber, RowExport>>
    /\ Len(ret.courses) = 1
    /\ ret.courses[1].code = <<"C", "P", "S", "C", " ", "4", "3", "0">>

\* every cell of the row is a text or absent
AllText(row) == \A k \in 1..Len(row) : IsString(row[k]) \/ row[k] = NULL

\* C7 (as claimed): once the row-count check and the header validation have
\* passed, parseExcel returns a list whatever the data rows hold, with the
\* Courses of all rows that can be parsed.
C7_ReturnsWhateverTheRows ==
    (/\ fn = "parseExcel"
     /\ called
     /\ Len(arg) >= dataStartRow
     /\ validateHeaders(arg[headerRow])
     /\ AllText(arg[headerRow])) =>
        /\ Returned
        /\ Len(ret.courses) = Len(SelectContributing(DataRowsOf(arg)))

\* C8: parseExcel ends in an error and returns no list when the grid has fewer
\* than 7 rows or row 6 fails header validation; the row-count check comes
\* first, the header check second, and no data row is parsed before both have
\* passed.
C8_FatalFormatErrors ==
    fn = "parseExcel" =>
        /\ checksDone \in {<<>>, <<"rowCount">>, <<"rowCount", "headers">>}
        /\ (pc = "rows" \/ parsedRows # <<>> \/ courses # <<>>) =>
               /\ checksDone = <<"rowCount", "headers">>
               /\ Len(arg) >= dataStartRow
               /\ validateHeaders(arg[headerRow])
        /\ (called /\ Len(arg) < dataStartRow) =>
               /\ Failed /\ ~Returned
               /\ ret.error = ErrInsufficient
               /\ checksDone = <<"rowCount">>
        /\ (called /\ Len(arg) >= dataStartRow /\ ~validateHeaders(arg[headerRow])) =>
               /\ Failed /\ ~Returned
               /\ ret.error = ErrFormat
               /\ checksDone = <<"rowCount", "headers">>

\* a grid of 7 rows whose row 6 is no schedule header
C8_Witness ==
    /\ Failed
    /\ Len(arg) >= dataStartRow
    /\ arg[headerRow] = HeadersOther
    /\ ret.error = ErrFormat
    /\ parsedRows = <<>>

(***************************************************************************)
(* generateICS over lists of courses                                       *)
(***************************************************************************)
MaxCourses == 2

\* the meeting of the generator's tests: Monday and Wednesday, 09:00 to 10:00
MeetTest ==
    [startDate |-> TxtDateSep02, endDate |-> TxtDateDec04, days |-> <<MO, WE>>,
     startTime |-> <<"0", "9", ":", "0", "0">>, endTime |-> <<"1", "0", ":", "0", "0">>, location |-> <<"T", "e", "s", "t", " ", "L", "o", "c", "a", "t", "i", "o", "n">>]

\* the same days from the same start date, at another time of day
MeetAfternoon ==
    [startDate |-> TxtDateSep02, endDate |-> TxtDateDec04, days |-> <<MO, WE>>,
     startTime |-> <<"1", "4", ":", "0", "0">>, endTime |-> <<"1", "5", ":", "3", "0">>, location |-> UNDEF]

\* days and start date, no end date
MeetNoEnd ==
    [startDate |-> TxtDateSep02, endDate |-> UNDEF, days |-> <<TU>>,
     startTime |-> <<"1", "1", ":", "0", "0">>, endTime |-> <<"1", "2", ":", "0", "0">>, location |-> <<"R", "o", "o", "m", ";", " ", "2", ",", " ", "W", "e", "s", "t">>]

\* both dates, no days
MeetNoDays ==
    [startDate |-> TxtDateSep02, endDate |-> TxtDateDec04, days |-> <<>>,
     startTime |-> <<"1", "1", ":", "0", "0">>, endTime |-> <<"1", "2", ":", "0", "0">>, location |-> UNDEF]

\* days and end date, no start date
MeetNoStart ==
    [startDate |-> UNDEF, endDate |-> TxtDateApr08, days |-> <<FR>>,
     startTime |-> <<"0", "8", ":", "0", "0">>, endTime |-> <<"0", "9", ":", "0", "0">>, location |-> UNDEF]

MeetWinter ==
    [startDate |-> <<"2", "0", "2", "6", "-", "0", "1", "-", "0", "5">>, endDate |-> TxtDateApr08, days |-> <<TH>>,
     startTime |-> <<"1", "6", ":", "0", "0">>, endTime |-> <<"1", "7", ":", "0", "0">>, location |-> UNDEF]

\* a range from Tuesday to Thursday with a class on Monday
MeetShort ==
    [startDate |-> <<"2", "0", "2", "5", "-", "1", "2", "-", "0", "2">>,
     endDate |-> TxtDateDec04, days |-> <<MO>>,
     startTime |-> <<"1", "3", ":", "0", "0">>, endTime |-> <<"1", "4", ":", "0", "0">>,
     location |-> UNDEF]

\* the course of the generator's tests
CourseTest ==
    [code |-> <<"T", "E", "S", "T", " ", "1", "0", "1">>, name |-> <<"T", "e", "s", "t", " ", "C", "o", "u", "r", "s", "e">>, section |-> UNDEF,
     credits |-> TxtCredits3, instructor |-> <<"T", "e", "s", "t", " ", "I", "n", "s", "t", "r", "u", "c", "t", "o", "r">>, format |-> UNDEF,
     delivery |-> UNDEF, status |-> UNDEF, meetings |-> <<MeetTest>>]

\* every field present, two meetings on the same days
CourseFull ==
    [code |-> <<"C", "P", "S", "C", "_", "V", " ", "1", "1", "0">>, name |-> <<"D", "a", "t", "a", ",", " ", "M", "o", "d", "e", "l", "s">>, section |-> TxtSectionCpsc,
     credits |-> TxtCredits4, instructor |-> TxtTuring, format |-> <<"L", "a", "b", "o", "r", "a", "t", "o", "r", "y">>,
     delivery |-> TxtInPerson, status |-> TxtRegistered,
     meetings |-> <<MeetTest, MeetAfternoon>>]

\* one description field only
CourseSectionOnly ==
    [code |-> <<"M", "A", "T", "H", "_", "V", " ", "2", "0", "0">>, name |-> <<>>, section |-> <<"1", "0", "1">>,
     credits |-> <<>>, instructor |-> <<>>, format |-> <<>>,
     delivery |-> <<>>, status |-> <<>>, meetings |-> <<MeetNoEnd, MeetNoDays>>]

CourseWinter ==
    [code |-> <<"P", "H", "Y", "S", "_", "V", " ", "1", "1", "7">>, name |-> <<"D", "y", "n", "a", "m", "i", "c", "s">>, section |-> <<>>,
     credits |-> <<>>, instructor |-> <<>>, format |-> TxtLecture,
     delivery |-> <<>>, status |-> <<>>, meetings |-> <<MeetNoStart, MeetWinter>>]

\* no description field
CoursePlain ==
    [code |-> <<"E", "N", "G", "L", "_", "V", " ", "1", "0", "0">>, name |-> <<>>, section |-> <<>>,
     credits |-> <<>>, instructor |-> <<>>, format |-> <<>>,
     delivery |-> <<>>, status |-> <<>>, meetings |-> <<MeetWinter>>]

CourseNoMeetings ==
    [code |-> <<"A", "R", "T", "S", "_", "V", " ", "0", "0", "1">>, name |-> <<"S", "e", "m", "i", "n", "a", "r">>, section |-> <<>>,
     credits |-> <<>>, instructor |-> <<>>, format |-> <<>>,
     delivery |-> <<>>, status |-> <<>>, meetings |-> <<>>]

\* a course whose only meeting is the short range
CourseShort ==
    [code |-> <<"C", "H", "E", "M", "_", "V", " ", "1", "2", "1">>, name |-> <<"R", "e", "v", "i", "e", "w">>,
     section |-> <<>>, credits |-> <<>>, instructor |-> <<>>, format |-> <<>>,
     delivery |-> <<>>, status |-> <<>>, meetings |-> <<MeetShort>>]

\* a format cell that holds a line break
CourseBrokenFormat ==
    [code |-> <<"B", "I", "O", "L", "_", "V", " ", "1", "1", "2">>, name |-> <<"C", "e", "l", "l", "s">>, section |-> <<>>,
     credits |-> <<>>, instructor |-> <<>>, format |-> <<"L", "a", "b", CR, LF, "E", "N", "D", ":", "V", "E", "V", "E", "N", "T">>,
     delivery |-> <<>>, status |-> <<>>, meetings |-> <<MeetWinter>>]

ICSCourses ==
    {CourseTest, CourseFull, CourseSectionOnly, CourseWinter, CoursePlain,
     CourseNoMeetings, CourseBrokenFormat, CourseShort}

\* the number of generateUID calls a list of courses causes
UidCalls(courseList) ==
    Cardinality({k \in 1..Len(MeetingPairs(courseList)) :
                    HasDays(MeetingPairs(courseList)[k].meeting)})

InitICS ==
    /\ fn = "generateICS"
    /\ \E courseList \in TextsUpTo(ICSCourses, MaxCourses) :
           \E ticks \in 0..UidCalls(courseList) :
               arg = [courses |-> courseList, ticks |-> ticks]
    /\ called = FALSE
    /\ ret = <<>>
    /\ ExcelIdle
    /\ AppIdle

CallGenerateICS ==
    /\ fn = "generateICS"
    /\ ~called
    /\ called' = TRUE
    /\ ret' = generateICS(arg.courses, arg.ticks)
    /\ UNCHANGED <<fn, arg, excelVars, appVars>>

NextICS == CallGenerateICS

SpecICS == InitICS /\ [][NextICS]_vars

\* the positions of the line breaks of a document
BreaksOf(text) == {i \in 1..(Len(text) - 1) : text[i] = CR /\ text[i + 1] = LF}

\* the lines of a document, split at its line breaks
LinesOf(text) ==
    LET breaks == BreaksOf(text)
        BreakNo(k) == IF k = 0 THEN -1
                      ELSE IF k > Cardinality(breaks) THEN Len(text) + 1
                      ELSE CHOOSE p \in breaks : Cardinality({q \in breaks : q < p}) = k - 1
    IN  [k \in 1..(Cardinality(breaks) + 1) |->
            SubSeq(text, BreakNo(k - 1) + 2, BreakNo(k) - 1)]

Generated == fn = "generateICS" /\ called

\* the values of the lines of a document that start with a property name
ValuesOf(text, property) ==
    LET lines == LinesOf(text)
        at == {k \in 1..Len(lines) : StartsWithAt(lines[k], 1, property)}
    IN  [k \in at |-> SubSeq(lines[k], Len(property) + 1, Len(lines[k]))]

\* the (course, meeting) positions whose meeting satisfies Counted
MeetingsWhere(courseList, Counted(_)) ==
    UNION {{<<i, j>> : j \in {h \in 1..Len(courseList[i].meetings) :
                                  Counted(courseList[i].meetings[h])}} :
           i \in 1..Len(courseList)}

\* the meeting has a non-empty day set and an end date
IsDated(meeting) == Len(meeting.days) > 0 /\ Truthy(meeting.endDate)

\* the meeting has a non-empty day set and a start date
IsStarted(meeting) == Len(meeting.days) > 0 /\ Truthy(meeting.startDate)

\* C1: the number of BEGIN:VEVENT lines of the document equals the number of
\* meetings, over all courses given, that have a non-empty day set and an end
\* date; a meeting without an end date or without days produces no VEVENT.
C1_EventPerDatedMeeting ==
    Generated =>
        Cardinality(DOMAIN ValuesOf(ret, BeginEvent))
            = Cardinality(MeetingsWhere(arg.courses, IsDated))

\* what the code does for the meetings of the claim: an event for every meeting
\* with days, a start date and both times, whether or not it has an end date
C1_CodeEventPerStartedMeeting ==
    Generated =>
        Cardinality(DOMAIN ValuesOf(ret, BeginEvent))
            = Cardinality(MeetingsWhere(arg.courses, IsStarted))

\* C2: in the document of one generateICS call no two VEVENT blocks carry the
\* same UID.
C2_DistinctUids ==
    Generated =>
        LET uids == ValuesOf(ret, <<"U", "I", "D", ":">>)
        IN  \A i, j \in DOMAIN uids : i # j => uids[i] # uids[j]

\* the description the fields of a course make when consecutive fields are
\* separated by one backslash and the letter n
EscapedNewline == <<BS, "n">>
ClaimedDescription(course) ==
    JoinWith([k \in 1..Len(DescriptionLines(course)) |->
                 escapeText(DescriptionLines(course)[k])], EscapedNewline)

\* C9: every DESCRIPTION value of the document lists the present fields of its
\* course (name, section, instructor, credits, format, delivery, status) in
\* that order, leaves absent fields out, and separates consecutive fields by
\* one backslash followed by the letter n.
C9_DescriptionFields ==
    Generated =>
        LET values == ValuesOf(ret, <<"D", "E", "S", "C", "R", "I", "P", "T", "I", "O", "N", ":">>)
        IN  \A k \in DOMAIN values :
                \E i \in 1..Len(arg.courses) :
                    values[k] = ClaimedDescription(arg.courses[i])

\* what the code emits: the separator is two backslashes and the letter n
C9_CodeSeparator ==
    Generated =>
        LET values == ValuesOf(ret, <<"D", "E", "S", "C", "R", "I", "P", "T", "I", "O", "N", ":">>)
        IN  \A k \in DOMAIN values :
                \E i \in 1..Len(arg.courses) :
                    values[k] = JoinWith([h \in 1..Len(DescriptionLines(arg.courses[i])) |->
                                             escapeText(DescriptionLines(arg.courses[i])[h])],
                                         <<BS, BS, "n">>)

(***************************************************************************)
(* The structure of the document                                           *)
(***************************************************************************)
\* the property name of a content line: what stands before the first colon or
\* semicolon
PropertyName(line) ==
    LET stops == {k \in 1..Len(line) : line[k] \in {":", ";"}}
    IN  IF stops = {} THEN line ELSE SubSeq(line, 1, Leftmost(stops) - 1)

NameUid == <<"U", "I", "D">>
NameDtstamp == <<"D", "T", "S", "T", "A", "M", "P">>
NameDtstart == <<"D", "T", "S", "T", "A", "R", "T">>
NameDtend == <<"D", "T", "E", "N", "D">>
NameRrule == <<"R", "R", "U", "L", "E">>
NameSummary == <<"S", "U", "M", "M", "A", "R", "Y">>
NameDescription == <<"D", "E", "S", "C", "R", "I", "P", "T", "I", "O", "N">>
NameLocation == <<"L", "O", "C", "A", "T", "I", "O", "N">>
NameCategories == <<"C", "A", "T", "E", "G", "O", "R", "I", "E", "S">>
NameStatus == <<"S", "T", "A", "T", "U", "S">>

EventProperties ==
    <<NameUid, NameDtstamp, NameDtstart, NameDtend, NameRrule, NameSummary,
      NameDescription, NameLocation, NameCategories, NameStatus>>

OptionalProperties == {NameRrule, NameDescription, NameLocation, NameCategories}

\* the property sequences an event block may have
EventShapes ==
    {LET Kept(name) == name \notin dropped
     IN  SelectSeq(EventProperties, Kept) : dropped \in SUBSET OptionalProperties}

\* the k-th smallest element of a set of numbers
NthOf(S, k) == CHOOSE p \in S : Cardinality({q \in S : q < p}) = k - 1

\* the meetings that give an event, in course order and then meeting order
SurvivingPairs(courseList) ==
    LET Survives(pair) == IsStarted(pair.meeting)
    IN  SelectSeq(MeetingPairs(courseList), Survives)

\* the lines are a header, one timezone block, event blocks that follow one
\* another without nesting, and the closing line
WellFormedDocument(lines, courseList) ==
    LET n == Len(lines)
        begins == {k \in 1..n : lines[k] = BeginEvent}
        ends == {k \in 1..n : lines[k] = EndEvent}
        headerLen == Len(CalendarHeader) + Len(TimezoneBlock)
        pairs == SurvivingPairs(courseList)
    IN  /\ n > headerLen
        /\ SubSeq(lines, 1, Len(CalendarHeader)) = CalendarHeader
        /\ SubSeq(lines, Len(CalendarHeader) + 1, headerLen) = TimezoneBlock
        /\ Cardinality({k \in 1..n : lines[k] = TimezoneBlock[1]}) = 1
        /\ Cardinality({k \in 1..n : lines[k] = TimezoneBlock[Len(TimezoneBlock)]}) = 1
        /\ lines[n] = EndCalendar
        /\ Cardinality(begins) = Cardinality(ends)
        /\ Cardinality(begins) = Len(pairs)
        /\ \A k \in 1..Cardinality(begins) :
              LET b == NthOf(begins, k)
                  e == NthOf(ends, k)
              IN  /\ b < e
                  /\ b = (IF k = 1 THEN headerLen + 1 ELSE NthOf(ends, k - 1) + 1)
                  /\ [h \in 1..(e - b - 1) |-> PropertyName(lines[b + h])] \in EventShapes
                  /\ StartsWithAt(lines[b + 1], Len(NameUid) + 2,
                                  RemoveChars(pairs[k].course.code, WhiteSpace))
                  /\ lines[b + 3] = NameDtstart \o TzidParam
                                      \o getFirstOccurrence(pairs[k].meeting.startDate,
                                                            pairs[k].meeting.days,
                                                            pairs[k].meeting.startTime)
        /\ (IF begins = {} THEN n = headerLen + 1
            ELSE NthOf(ends, Cardinality(ends)) = n - 1)

\* C11: every document is the calendar header, one VTIMEZONE block, the VEVENT
\* blocks in course order and then meeting order, and END:VCALENDAR, joined by
\* CRLF; BEGIN:VEVENT and END:VEVENT are balanced and never nested, and every
\* VEVENT block holds UID, DTSTAMP, DTSTART, DTEND, RRULE if any, SUMMARY,
\* DESCRIPTION, LOCATION and CATEGORIES if any, and STATUS, in this order.
C11_DocumentStructure ==
    Generated => WellFormedDocument(LinesOf(ret), arg.courses)

\* the same for the lists whose format cells hold no line break
C11_StructureWithoutLineBreaks ==
    (Generated /\ \A i \in 1..Len(arg.courses) : ~Includes(Str(arg.courses[i].format), CRLF))
        => WellFormedDocument(LinesOf(ret), arg.courses)

(***************************************************************************)
(* convertTo24Hour over the time tokens of the time-range pattern          *)
(***************************************************************************)
\* the texts \d{1,2}:\d{2}
TimeTokens ==
    {hour \o <<":">> \o minute :
        hour \in [1..1 -> Digits] \cup [1..2 -> Digits], minute \in [1..2 -> Digits]}

InitTime ==
    /\ fn = "convertTo24Hour"
    /\ arg \in [time : TimeTokens, period : {AM, PM}]
    /\ called = FALSE
    /\ ret = <<>>
    /\ ExcelIdle
    /\ AppIdle

CallConvertTo24Hour ==
    /\ fn = "convertTo24Hour"
    /\ ~called
    /\ called' = TRUE
    /\ ret' = convertTo24Hour(arg.time, arg.period)
    /\ UNCHANGED <<fn, arg, excelVars, appVars>>

NextTime == CallConvertTo24Hour

SpecTime == InitTime /\ [][NextTime]_vars

\* a number below 100 in two digits, and in as few digits as it takes
TwoDigits(n) == <<DigitChar(n \div 10), DigitChar(n % 10)>>
FewDigits(n) == IF n < 10 THEN <<DigitChar(n)>> ELSE TwoDigits(n)

\* the 24-hour hour of hour h of the 12-hour clock
Hour24(h, period) ==
    IF period = AM THEN (IF h = 12 THEN 0 ELSE h)
    ELSE (IF h = 12 THEN 12 ELSE h + 12)

Converted == fn = "convertTo24Hour" /\ called

\* C12: for every hour 1..12, minute 0..59 and period, convertTo24Hour returns
\* the zero-padded 24-hour HH:MM: 12 a.m. is hour 00, 12 p.m. is hour 12, any
\* other p.m. hour is H+12, any other a.m. hour is H; the minute is unchanged.
C12_TwentyFourHour ==
    Converted =>
        \A h \in 1..12, m \in 0..59 :
            arg.time \in {FewDigits(h) \o <<":">> \o TwoDigits(m),
                          TwoDigits(h) \o <<":">> \o TwoDigits(m)}
                => ret = TwoDigits(Hour24(h, arg.period)) \o <<":">> \o TwoDigits(m)

\* half past midnight
C12_Witness ==
    /\ Converted
    /\ arg = [time |-> <<"1", "2", ":", "3", "0">>, period |-> AM]
    /\ ret = <<"0", "0", ":", "3", "0">>

\* a zero-padded 24-hour time HH:MM
IsTimeOfDay(t) ==
    /\ Len(t) = 5
    /\ t[3] = ":"
    /\ \A k \in {1, 2, 4, 5} : t[k] \in Digits
    /\ \E h \in 0..23, m \in 0..59 : t = TwoDigits(h) \o <<":">> \o TwoDigits(m)

\* C13: for every time token the time-range pattern accepts, the startTime and
\* endTime stored in the Meeting are zero-padded 24-hour times, hour 00..23 and
\* minute 00..59.
C13_StoredTimesValid ==
    (fn = "parseMeetingPatterns" /\ called) =>
        \A k \in 1..Len(ret) : IsTimeOfDay(ret[k].startTime) /\ IsTimeOfDay(ret[k].endTime)

\* the same for the tokens H:MM of the 12-hour clock: hour 1..12, minute 00..59
C13_ClockTokensValid ==
    (Converted /\ \E h \in 1..12, m \in 0..59 :
                     arg.time \in {FewDigits(h) \o <<":">> \o TwoDigits(m),
                                   TwoDigits(h) \o <<":">> \o TwoDigits(m)})
        => IsTimeOfDay(ret)

(***************************************************************************)
(* parseDays over days fields                                              *)
(***************************************************************************)
MaxDayWords == 3

DayWords ==
    {<<"M", "o", "n">>, <<"T", "u", "e">>, <<"W", "e", "d">>, <<"T", "h", "u">>, <<"F", "r", "i">>, <<"S", "a", "t">>, <<"S", "u", "n">>,
     <<"M", "o", "n", "t", "h">>, <<"t", "u", "e">>, <<"T", "B", "A">>, <<"S", "a", "t", "S", "u", "n">>}

DaysFields ==
    {JoinWith(ws, <<" ">>) : ws \in UNION {[1..k -> DayWords] : k \in 0..MaxDayWords}}

InitDays ==
    /\ fn = "parseDays"
    /\ arg \in DaysFields
    /\ called = FALSE
    /\ ret = <<>>
    /\ ExcelIdle
    /\ AppIdle

CallParseDays ==
    /\ fn = "parseDays"
    /\ ~called
    /\ called' = TRUE
    /\ ret' = parseDays(arg)
    /\ UNCHANGED <<fn, arg, excelVars, appVars>>

NextDays == CallParseDays

SpecDays == InitDays /\ [][NextDays]_vars

\* the weekday name of a code
NameOfCode(code) ==
    CASE code = MO -> <<"M", "o", "n">> [] code = TU -> <<"T", "u", "e">> [] code = WE -> <<"W", "e", "d">>
      [] code = TH -> <<"T", "h", "u">> [] code = FR -> <<"F", "r", "i">> [] code = SA -> <<"S", "a", "t">>
      [] code = SU -> <<"S", "u", "n">>

\* sub occurs in text
OccursIn(sub, text) ==
    \E i \in 1..Len(text) :
        i + Len(sub) - 1 <= Len(text) /\ SubSeq(text, i, i + Len(sub) - 1) = sub

\* C14: parseDays returns exactly the codes of the weekday names that occur as
\* substrings of the text, each once, in the order MO, TU, WE, TH, FR, SA, SU
\* whatever the order of the names; the empty list for the empty text.
C14_DaysInTableOrder ==
    (fn = "parseDays" /\ called) =>
        LET Named(code) == OccursIn(NameOfCode(code), arg)
        IN  /\ ret = SelectSeq(WeekdayCodes, Named)
            /\ (arg = <<>> => ret = <<>>)

\* names in another order than the table's
C14_Witness ==
    /\ fn = "parseDays"
    /\ called
    /\ arg = <<"F", "r", "i", " ", "W", "e", "d", " ", "M", "o", "n">>
    /\ ret = <<MO, WE, FR>>

(***************************************************************************)
(* buildRRule over meetings                                                *)
(***************************************************************************)
MaxRuleDays == 3

RuleEndDates == {TxtDateDec04, TxtDateApr08, UNDEF, <<>>}

RuleDayLists == UNION {[1..k -> {MO, TU, WE, TH, FR, SA, SU}] : k \in 0..MaxRuleDays}

InitRRule ==
    /\ fn = "buildRRule"
    /\ arg \in [endDate : RuleEndDates, days : RuleDayLists]
    /\ called = FALSE
    /\ ret = <<>>
    /\ ExcelIdle
    /\ AppIdle

CallBuildRRule ==
    /\ fn = "buildRRule"
    /\ ~called
    /\ called' = TRUE
    /\ ret' = buildRRule(arg)
    /\ UNCHANGED <<fn, arg, excelVars, appVars>>

NextRRule == CallBuildRRule

SpecRRule == InitRRule /\ [][NextRRule]_vars

\* a date without its dashes
WithoutDashes(date) ==
    LET NoDash(ch) == ch # "-"
    IN  SelectSeq(date, NoDash)

RECURSIVE CommaJoined(_)
CommaJoined(codes) ==
    IF codes = <<>> THEN <<>>
    ELSE IF Len(codes) = 1 THEN codes[1]
    ELSE codes[1] \o <<",">> \o CommaJoined(Tail(codes))

\* C15: buildRRule returns FREQ=WEEKLY;UNTIL=<end date without dashes>T235959;
\* BYDAY=<the day codes joined by commas, in the meeting's order> when the
\* meeting has an end date and a non-empty day set, and null otherwise.
C15_RecurrenceRule ==
    (fn = "buildRRule" /\ called) =>
        IF arg.endDate \in {TxtDateDec04, TxtDateApr08} /\ Len(arg.days) > 0
        THEN ret = <<"F", "R", "E", "Q", "=", "W", "E", "E", "K", "L", "Y", ";", "U", "N", "T", "I", "L", "=">> \o WithoutDashes(arg.endDate)
                     \o <<"T", "2", "3", "5", "9", "5", "9", ";", "B", "Y", "D", "A", "Y", "=">> \o CommaJoined(arg.days)
        ELSE ret = NULL

\* the meeting of the test 'should build valid recurrence rule'
C15_Witness ==
    /\ fn = "buildRRule"
    /\ called
    /\ arg = [endDate |-> TxtDateDec04, days |-> <<MO, WE, FR>>]
    /\ ret = <<"F", "R", "E", "Q", "=", "W", "E", "E", "K", "L", "Y", ";", "U", "N", "T", "I", "L", "=", "2", "0", "2", "5", "1", "2", "0", "4", "T", "2", "3", "5", "9", "5", "9", ";", "B", "Y", "D", "A", "Y", "=", "M", "O", ",", "W", "E", ",", "F", "R">>

(***************************************************************************)
(* The student of a label                                                  *)
(***************************************************************************)
StudentLabels == {TxtStudentLabel, TxtStudentLabelB}

\* NAME, ID and TERM of the labels
StudentOfLabel(label) ==
    IF label = TxtStudentLabel
    THEN [name |-> <<"T", "e", "s", "t", " ", "S", "t", "u", "d", "e", "n", "t">>, id |-> <<"1", "2", "3", "4", "5", "6", "7", "8">>, term |-> <<"F", "a", "l", "l", " ", "2", "0", "2", "5">>]
    ELSE [name |-> <<"A", "d", "a", " ", "L", "o", "v", "e", "l", "a", "c", "e">>, id |-> <<"4", "2">>, term |-> <<"W", "i", "n", "t", "e", "r", " ", "T", "e", "r", "m", " ", "2">>]

\* C16: the StudentInfo built from a label 'NAME (ID) - TERM' has name NAME
\* trimmed, id ID and term TERM trimmed, also the StudentInfo that parseExcel
\* attaches to the Course of a row whose first cell holds such a label.
C16_StudentOfLabel ==
    Returned =>
        LET rows == SelectContributing(DataRowsOf(arg))
        IN  \A j \in 1..Len(rows) :
                (j <= Len(ret.courses) /\ rows[j][1] \in StudentLabels)
                    => ret.courses[j].student = StudentOfLabel(rows[j][1])

\* what parseExcel attaches: name and id of the label, term 'Current Term'
C16_CodeCurrentTerm ==
    Returned =>
        LET rows == SelectContributing(DataRowsOf(arg))
        IN  \A j \in 1..Len(rows) :
                (j <= Len(ret.courses) /\ rows[j][1] \in StudentLabels)
                    => ret.courses[j].student
                         = [StudentOfLabel(rows[j][1]) EXCEPT !.term = CurrentTerm]

\* parseStudentInfo alone, as parseCourseRow calls it for a row without a
\* student so far, gives NAME, ID and TERM
C16_ParseStudentInfoAlone ==
    (/\ fn = "parseCourseRow"
     /\ called
     /\ ret # TypeError
     /\ arg.studentInfo = NoStudent
     /\ arg.row[1] = TxtStudentLabel) => ret.student = StudentOfLabel(TxtStudentLabel)


(***************************************************************************)
(* Specification SpecApp: a parse result is loaded into the application,   *)
(* displayed, selected from and exported                                   *)
(***************************************************************************)
MaxParsed == 3

\* a course as parseCourseRow returns it
ParsedCourse == parseCourseRow(RowTest, HeadersTest, StudentCurrent)

\* a fall course
AppFall == [ParsedCourse EXCEPT !.startDate = TxtDateSep02, !.endDate = TxtDateDec04]

\* a course from September to April
AppYear ==
    [ParsedCourse EXCEPT !.code = <<"M", "A", "T", "H", " ", "2", "0", "0">>, !.startDate = TxtDateSep02,
                         !.endDate = TxtDateApr08]

\* a later row of the year course that ends in December
AppYearAgain == [AppYear EXCEPT !.endDate = TxtDateDec04]

\* no student, no dates, no meetings
AppUndated ==
    [ParsedCourse EXCEPT !.code = <<"P", "H", "Y", "S", " ", "1", "1", "7">>, !.student = NoStudent,
                         !.startDate = UNDEF, !.endDate = UNDEF, !.meetings = <<>>]

AppCourses == {AppFall, AppYear, AppYearAgain, AppUndated}

ParseResults == UNION {[1..n -> AppCourses] : n \in 0..MaxParsed}

InitApp ==
    /\ fn = "app"
    /\ arg \in ParseResults
    /\ called = FALSE
    /\ ret = <<>>
    /\ ExcelIdle
    /\ AppIdle

NextApp ==
    \/ OnLoad
    \/ \E index \in 0..MaxParsed : ToggleCourse(index)
    \/ selectAllCourses
    \/ selectNoCourses
    \/ getSelectedCourses
    \/ \E view \in {"list", "calendar"} : switchView(view)

SpecApp == InitApp /\ [][NextApp]_vars

\* the position in list of the first course with this code
FirstWithCode(list, code) ==
    CHOOSE k \in 1..Len(list) :
        /\ list[k].code = code
        /\ \A j \in 1..(k - 1) : list[j].code # code

\* kept holds exactly one course for each code of list, the first one, and
\* holds them in the order of their first occurrence
FirstPerCode(kept, list) ==
    /\ \A k \in 1..Len(list) :
           Cardinality({j \in 1..Len(kept) : kept[j].code = list[k].code}) = 1
    /\ \A j \in 1..Len(kept) :
           /\ \E k \in 1..Len(list) : list[k].code = kept[j].code
           /\ kept[j] = list[FirstWithCode(list, kept[j].code)]
    /\ \A i, j \in 1..Len(kept) :
           i < j => FirstWithCode(list, kept[i].code) < FirstWithCode(list, kept[j].code)

\* picked holds courses of kept, each at most once, in the order of kept
PickedInOrder(picked, kept) ==
    \E at \in [1..Len(picked) -> 1..Len(kept)] :
        /\ \A i \in 1..Len(picked) : picked[i] = kept[at[i]]
        /\ \A i, j \in 1..Len(picked) : i < j => at[i] < at[j]

\* C17: the collapse made for display and for export keeps exactly one
\* course for each code, the first one in parse order, in the order of first
\* occurrence; the displayed items and the exported courses are courses of
\* that collapse only.
C17_FirstCoursePerCode ==
    (fn = "app" /\ called /\ Len(appCourses) > 0) =>
        /\ FirstPerCode(courseMap, appCourses)
        /\ \A k \in 1..Len(courseItems) :
               \E j \in 1..Len(courseMap) : courseItems[k].course = courseMap[j]
        /\ \A j \in 1..Len(courseMap) :
               \E k \in 1..Len(courseItems) : courseItems[k].course = courseMap[j]
        /\ PickedInOrder(ret, courseMap)

\* a list with a repeated code was displayed and exported
C17_Witness ==
    /\ fn = "app"
    /\ called
    /\ Len(appCourses) = 3
    /\ appCourses[1] = AppYear
    /\ appCourses[2] = AppFall
    /\ appCourses[3] = AppYearAgain
    /\ courseMap = <<AppYear, AppFall>>
    /\ ret = <<AppYear, AppFall>>

(***************************************************************************)
(* Specification SpecDate: parseDate applied to one cell value             *)
(***************************************************************************)
RangeError == [error |-> "RangeError"]

\* the days the date texts are built from
DayTexts == {TxtDateSep02, TxtDateDec04, TxtDateApr08, <<"2", "0", "2", "4", "-", "0", "2", "-", "2", "9">>}

\* what precedes and what follows the day in a date text
DatePrefixes == {<<>>, <<" ">>, <<"o", "n", " ">>}
DateSuffixes ==
    {<<>>, <<" ", "1", "0", ":", "3", "0", ":", "0", "0">>, <<" ", "0", "0", ":", "0", "0", ":", "0", "0">>, <<"T", "1", "0", ":", "3", "0", ":", "0", "0">>, <<"T", "0", "0", ":", "0", "0", ":", "0", "0", ".", "0", "0", "0", "Z">>,
     <<"1">>, <<" ">>, <<"-", "0", "1">>, <<"/">>}

DateTexts ==
    {p \o d \o s : p \in DatePrefixes, d \in DayTexts, s \in DateSuffixes}
        \cup {<<>>, TxtTBA, <<"2", "0", "2", "5", "-", "0", "9">>, <<"2", "0", "2", "5", "/", "0", "9", "/", "0", "2">>}

DateInputs == DateTexts \cup {DateCell, InvalidDateCell}

InitDate ==
    /\ fn = "parseDate"
    /\ arg \in DateInputs
    /\ called = FALSE
    /\ ret = <<>>
    /\ ExcelIdle
    /\ AppIdle

CallParseDate ==
    /\ fn = "parseDate"
    /\ ~called
    /\ called' = TRUE
    /\ ret' = IF parseDateThrows(arg) THEN RangeError
              ELSE [returned |-> parseDate(arg)]
    /\ UNCHANGED <<fn, arg, excelVars, appVars>>

NextDate == CallParseDate

SpecDate == InitDate /\ [][NextDate]_vars

\* exactly YYYY-MM-DD
IsIsoDay(s) == Len(s) = 10 /\ IsoDateAt(s, 1)

\* C18: parseDate never raises an error, and returns either a text of
\* exactly the form YYYY-MM-DD or an absent value.
C18_IsoDayOrAbsent ==
    (fn = "parseDate" /\ called) =>
        /\ ret # RangeError
        /\ ret.returned = NULL \/ IsIsoDay(ret.returned)

\* C18, the inputs the code handles: a text that is a day, alone or followed
\* by a space and a time of day, gives the day; the Date of the model gives
\* its day.
C18_DayAndTimeTexts ==
    (fn = "parseDate" /\ called) =>
        /\ \A d \in DayTexts :
               (arg = d \/ (Len(arg) > 10 /\ SubSeq(arg, 1, 11) = d \o <<" ">>))
                   => ret = [returned |-> d]
        /\ arg = DateCell => ret = [returned |-> TxtDateSep02]

(***************************************************************************)
(* Specification SpecAgain: generateICS called twice on one course list    *)
(***************************************************************************)
\* the clock reads 0 or 1 and never goes back: the second call may read 0
\* only if the first call read 0 to its end
SecondTicks(courseList, firstTicks) ==
    IF firstTicks < UidCalls(courseList) THEN {0}
    ELSE 0..UidCalls(courseList)

InitAgain ==
    /\ fn = "generateICS twice"
    /\ \E courseList \in TextsUpTo(ICSCourses, MaxCourses) :
           \E ticks \in 0..UidCalls(courseList) :
               arg = [courses |-> courseList, ticks |-> ticks]
    /\ called = FALSE
    /\ ret = <<>>
    /\ ExcelIdle
    /\ AppIdle

GenerateFirst ==
    /\ fn = "generateICS twice"
    /\ ~called
    /\ Len(ret) = 0
    /\ ret' = <<[document |-> generateICS(arg.courses, arg.ticks), ticks |-> arg.ticks]>>
    /\ UNCHANGED <<fn, arg, called, excelVars, appVars>>

GenerateSecond ==
    /\ fn = "generateICS twice"
    /\ ~called
    /\ Len(ret) = 1
    /\ called' = TRUE
    /\ \E ticks \in SecondTicks(arg.courses, arg.ticks) :
           ret' = Append(ret, [document |-> generateICS(arg.courses, ticks),
                               ticks |-> ticks])
    /\ UNCHANGED <<fn, arg, excelVars, appVars>>

NextAgain == GenerateFirst \/ GenerateSecond

SpecAgain == InitAgain /\ [][NextAgain]_vars

GeneratedTwice == fn = "generateICS twice" /\ called

\* the UID values of the two documents differ, event by event
UidsDiffer(first, second) ==
    LET before == ValuesOf(first, <<"U", "I", "D", ":">>)
        after == ValuesOf(second, <<"U", "I", "D", ":">>)
    IN  /\ DOMAIN before = DOMAIN after
        /\ \A k \in DOMAIN before : before[k] # after[k]

\* C19: two generateICS calls on the same course list give different UIDs to
\* corresponding events, whatever the time between the two calls.
C19_RegeneratedUidsDiffer ==
    GeneratedTwice => UidsDiffer(ret[1].document, ret[2].document)

\* C19, when the clock advances between the calls: the first call reads 0 to
\* its end and the second reads 1 from its start
C19_DifferAfterClockTick ==
    (/\ GeneratedTwice
     /\ ret[1].ticks = UidCalls(arg.courses)
     /\ ret[2].ticks = 0)
        => UidsDiffer(ret[1].document, ret[2].document)

(***************************************************************************)
(* The student a course inherits                                           *)
(***************************************************************************)
\* the rows of the grid, from the first data row to row last, that give a
\* course
CourseRowsUpTo(grid, last) == {i \in dataStartRow..last : Contributes(grid[i])}

\* the row of the j-th course
RowOfCourse(grid, j) ==
    CHOOSE i \in CourseRowsUpTo(grid, Len(grid)) :
        Cardinality(CourseRowsUpTo(grid, i)) = j

\* the data rows at or above row i whose first cell holds a student label
LabelRowsUpTo(grid, i) == {h \in dataStartRow..i : grid[h][1] \in StudentLabels}

\* the student is the one of the label of the nearest label row at or above
\* row i, and null without such a row
InheritsAt(student, grid, i) ==
    LET above == LabelRowsUpTo(grid, i)
    IN  IF above = {} THEN student = NoStudent
        ELSE LET nearest == CHOOSE h \in above : \A g \in above : g <= h
             IN  /\ student # NoStudent
                 /\ student.name = StudentOfLabel(grid[nearest][1]).name
                 /\ student.id = StudentOfLabel(grid[nearest][1]).id

\* C20: at every point of a parseExcel pass and in the returned list, the
\* student of each Course is the StudentInfo of the nearest data row at or
\* above the Course's row whose first cell holds a student label, and null
\* when there is no such row; the student of a Course already in the list
\* stays what it was.
C20_StudentOfNearestLabel ==
    (fn = "parseExcel" /\ pc \in {"rows", "done"}) =>
        /\ \A j \in 1..Len(courses) :
               InheritsAt(courses[j].student, arg, RowOfCourse(arg, j))
        /\ Returned => ret.courses = courses

\* the label of the first row is carried to the course of the second row
C20_Witness ==
    /\ Returned
    /\ DataRowsOf(arg) = <<RowExport, RowContinuation>>
    /\ Len(ret.courses) = 2
    /\ ret.courses[1].student # NoStudent
    /\ ret.courses[2].student = ret.courses[1].student

(***************************************************************************)
(* The cell a field of a course is taken from                              *)
(***************************************************************************)
\* a cell that holds a value
IsPresent(x) == x \notin {NULL, UNDEF, <<>>}

\* the columns whose trimmed header is name
ColumnsNamed(headers, name) ==
    {k \in 1..Len(headers) : IsString(headers[k]) /\ Trim(headers[k]) = name}

\* the cell at the fixed 0-based index when present, else the present cell of
\* a column named name, else the empty text
ChosenCell(row, headers, index, name) ==
    IF index + 1 <= Len(row) /\ IsPresent(row[index + 1]) THEN row[index + 1]
    ELSE LET named == {k \in ColumnsNamed(headers, name) :
                          k <= Len(row) /\ IsPresent(row[k])}
         IN  IF named = {} THEN <<>> ELSE row[CHOOSE k \in named : TRUE]

MaxHeaderCells == 5

TxtAllTerms == <<"D", "R", "O", "P", " ", "/", " ", "c", "r", "e", "d", "i", "t", "s", " ", "/", " ", "G", "R", "A", "D", "I", "N", "G">>

HeaderCells == {NULL, TxtDrop, HeaderCredits, TxtGradingBasis, TxtAllTerms}

InitHeaders ==
    /\ fn = "validateHeaders"
    /\ arg \in TextsUpTo(HeaderCells, MaxHeaderCells)
    /\ called = FALSE
    /\ ret = <<>>
    /\ ExcelIdle
    /\ AppIdle

CallValidateHeaders ==
    /\ fn = "validateHeaders"
    /\ ~called
    /\ called' = TRUE
    /\ ret' = validateHeaders(arg)
    /\ UNCHANGED <<fn, arg, excelVars, appVars>>

NextHeaders == CallValidateHeaders

SpecHeaders == InitHeaders /\ [][NextHeaders]_vars

\* the critical terms
CriticalTerms == {<<"d", "r", "o", "p">>, <<"c", "r", "e", "d", "i", "t", "s">>, <<"g", "r", "a", "d", "i", "n", "g">>}

\* every critical term occurs in the lower-cased text of the non-null cells,
\* put one after the other with a space between them
HasCriticalTerms(headers) ==
    LET NonNull(cell) == cell # NULL
        text == ToLowerCase(JoinWith(SelectSeq(headers, NonNull), <<" ">>))
    IN  \A term \in CriticalTerms : OccursIn(term, text)

\* C22: validateHeaders returns true if and only if 'drop', 'credits' and
\* 'grading' all occur in the lower-cased concatenation of the non-null header
\* cells, for header rows of every length.
C22_CriticalTermsDecide ==
    (fn = "validateHeaders" /\ called) => (ret <=> HasCriticalTerms(arg))

\* C22 for header rows of five cells or more
C22_DecideFromFiveCells ==
    (fn = "validateHeaders" /\ called /\ Len(arg) >= 5)
        => (ret <=> HasCriticalTerms(arg))

\* a header row of fewer than five cells is rejected whatever it holds
C22_ShortRowsRejected ==
    (fn = "validateHeaders" /\ called /\ Len(arg) < 5) => ~ret

(***************************************************************************)
(* Specification SpecTerm: determineTerm of the list view applied to one   *)
(* course                                                                  *)
(***************************************************************************)
Months == 1..12

\* a day of month m
DateOfMonth(m) == <<"2", "0", "2", "5", "-">> \o TwoDigits(m) \o <<"-", "1", "5">>

\* the students of the courses: none, and one for each term text
TermTexts ==
    {<<>>, CurrentTerm, <<"2", "0", "2", "5", "-", "2", "6", " ", "W", "i", "n", "t", "e", "r", " ", "T", "e", "r", "m", " ", "1", " ", "(", "U", "B", "C", "-", "V", ")">>, <<"W", "i", "n", "t", "e", "r", " ", "T", "e", "r", "m", " ", "2">>,
     <<"S", "U", "M", "M", "E", "R", " ", "T", "E", "R", "M", " ", "1">>, <<"S", "u", "m", "m", "e", "r", " ", "S", "e", "s", "s", "i", "o", "n", " ", "T", "e", "r", "m", " ", "2">>, <<"W", "i", "n", "t", "e", "r", " ", "F", "u", "l", "l", " ", "Y", "e", "a", "r">>,
     <<"Y", "e", "a", "r", " ", "L", "o", "n", "g", " ", "-", " ", "S", "u", "m", "m", "e", "r", " ", "T", "e", "r", "m", " ", "1">>, <<"T", "e", "r", "m", " ", "1">>, <<"t", "e", "r", "m", " ", "2", " ", "o", "f", " ", "t", "e", "r", "m", " ", "1">>,
     <<"S", "u", "m", "m", "e", "r", " ", "2", "0", "2", "5">>}

TermStudents ==
    {NoStudent} \cup {[StudentCurrent EXCEPT !.term = t] : t \in TermTexts}

\* start and end date of a course or a meeting: a day of a month, or absent
DatePairs == (Months \cup {0}) \X (Months \cup {0})

DateOrAbsent(m) == IF m = 0 THEN UNDEF ELSE DateOfMonth(m)

\* the first meetings tried with a course that has both dates
FewMeetingPairs == {<<9, 12>>, <<1, 4>>, <<5, 8>>, <<0, 0>>}

MeetingOfPair(pair) ==
    [MeetTest EXCEPT !.startDate = DateOrAbsent(pair[1]),
                     !.endDate = DateOrAbsent(pair[2])]

\* a course with these dates; no meetings, or one meeting with its dates
TermCourse(student, dates, meetings) ==
    [ParsedCourse EXCEPT !.student = student,
                         !.startDate = DateOrAbsent(dates[1]),
                         !.endDate = DateOrAbsent(dates[2]),
                         !.meetings = meetings]

TermCourses ==
    {TermCourse(student, dates, meetings) :
        student \in TermStudents, dates \in DatePairs,
        meetings \in {<<>>} \cup {<<MeetingOfPair(pair)>> : pair \in FewMeetingPairs}}
      \cup
    {TermCourse(student, dates, <<MeetingOfPair(pair)>>) :
        student \in {NoStudent, [StudentCurrent EXCEPT !.term = CurrentTerm]},
        dates \in {<<0, 0>>, <<9, 0>>, <<0, 4>>}, pair \in DatePairs}

InitTerm ==
    /\ fn = "determineTerm"
    /\ arg \in TermCourses
    /\ called = FALSE
    /\ ret = <<>>
    /\ ExcelIdle
    /\ AppIdle

CallDetermineTerm ==
    /\ fn = "determineTerm"
    /\ ~called
    /\ called' = TRUE
    /\ ret' = determineTerm(arg)
    /\ UNCHANGED <<fn, arg, excelVars, appVars>>

NextTerm == CallDetermineTerm

SpecTerm == InitTerm /\ [][NextTerm]_vars

TermLabels ==
    {"Winter Full Year", "Winter Term 1", "Winter Term 2", "Summer Term 1",
     "Summer Term 2", "Summer Full Term", "Other"}

\* the rules on the term text of the student, in order: the words that must
\* all occur, the words of which one must occur, the label
StudentTermRules ==
    <<[all |-> {}, any |-> {<<"f", "u", "l", "l", " ", "y", "e", "a", "r">>, <<"y", "e", "a", "r", " ", "l", "o", "n", "g">>}, label |-> "Winter Full Year"],
      [all |-> {<<"w", "i", "n", "t", "e", "r">>, <<"t", "e", "r", "m", " ", "1">>}, any |-> {}, label |-> "Winter Term 1"],
      [all |-> {<<"w", "i", "n", "t", "e", "r">>, <<"t", "e", "r", "m", " ", "2">>}, any |-> {}, label |-> "Winter Term 2"],
      [all |-> {<<"s", "u", "m", "m", "e", "r">>, <<"t", "e", "r", "m", " ", "1">>}, any |-> {}, label |-> "Summer Term 1"],
      [all |-> {<<"s", "u", "m", "m", "e", "r">>, <<"t", "e", "r", "m", " ", "2">>}, any |-> {}, label |-> "Summer Term 2"],
      [all |-> {<<"t", "e", "r", "m", " ", "1">>}, any |-> {}, label |-> "Winter Term 1"],
      [all |-> {<<"t", "e", "r", "m", " ", "2">>}, any |-> {}, label |-> "Winter Term 2"]>>

\* the rules that the term text of the course's student matches
MatchingTermRules(course) ==
    IF course.student = NoStudent THEN {}
    ELSE LET text == ToLowerCase(course.student.term)
         IN  {k \in 1..Len(StudentTermRules) :
                 /\ \A w \in StudentTermRules[k].all : OccursIn(w, text)
                 /\ StudentTermRules[k].any = {}
                      \/ \E w \in StudentTermRules[k].any : OccursIn(w, text)}

FirstOf(set) == CHOOSE k \in set : \A j \in set : k <= j

\* C23: determineTerm returns one of the seven labels, and when the term text
\* of the student matches a rule the result is the label of the first
\* matching rule, whatever the dates of the course and of its meetings.
C23_StudentTermFirst ==
    (fn = "determineTerm" /\ called) =>
        /\ ret \in TermLabels
        /\ MatchingTermRules(arg) # {}
             => ret = StudentTermRules[FirstOf(MatchingTermRules(arg))].label

\* a summer term text on a course whose dates are those of a winter term
C23_Witness ==
    /\ fn = "determineTerm"
    /\ called
    /\ arg.student # NoStudent
    /\ arg.student.term = <<"S", "U", "M", "M", "E", "R", " ", "T", "E", "R", "M", " ", "1">>
    /\ arg.startDate = DateOfMonth(9)
    /\ arg.endDate = DateOfMonth(12)
    /\ ret = "Summer Term 1"

\* the month of a date of the model
MonthNumber(date) == ToNumber(SubSeq(date, 6, 7))

\* the thresholds on a start month and an end month, in order; "" when none
\* matches
ThresholdLabel(start, end) ==
    IF start >= 9 /\ end \in 3..4 THEN "Winter Full Year"
    ELSE IF start >= 9 /\ end <= 12 THEN "Winter Term 1"
    ELSE IF start \in 1..4 /\ end <= 4 THEN "Winter Term 2"
    ELSE IF start \in 5..6 /\ end <= 6 THEN "Summer Term 1"
    ELSE IF start \in 7..8 THEN "Summer Term 2"
    ELSE IF start \in 5..6 /\ end >= 7 THEN "Summer Full Term"
    ELSE ""

HasBothDates(x) == x.startDate # UNDEF /\ x.endDate # UNDEF

\* the label of the thresholds for the dates of a course or a meeting
LabelOfDates(x) == ThresholdLabel(MonthNumber(x.startDate), MonthNumber(x.endDate))

C25_MeetingDatesOnlyWithoutCourseDates ==
    (fn = "determineTerm" /\ called /\ MatchingTermRules(arg) = {}) =>
        IF HasBothDates(arg)
        THEN ret = IF LabelOfDates(arg) # "" THEN LabelOfDates(arg) ELSE "Other"
        ELSE IF Len(arg.meetings) > 0 /\ HasBothDates(arg.meetings[1])
                  /\ LabelOfDates(arg.meetings[1]) # ""
        THEN ret = LabelOfDates(arg.meetings[1])
        ELSE ret = "Other"

\* C25, the part about a course without a start or an end date
C25_MeetingDatesWhenCourseDateAbsent ==
    (/\ fn = "determineTerm"
     /\ called
     /\ MatchingTermRules(arg) = {}
     /\ ~HasBothDates(arg)) =>
        IF Len(arg.meetings) > 0 /\ HasBothDates(arg.meetings[1])
             /\ LabelOfDates(arg.meetings[1]) # ""
        THEN ret = LabelOfDates(arg.meetings[1])
        ELSE ret = "Other"

\* what the code does for a course with both dates: the first meeting decides
\* when no threshold matches the dates of the course
C25_CodeFallsThroughToMeetings ==
    (/\ fn = "determineTerm"
     /\ called
     /\ MatchingTermRules(arg) = {}
     /\ HasBothDates(arg)
     /\ LabelOfDates(arg) = "") =>
        IF Len(arg.meetings) > 0 /\ HasBothDates(arg.meetings[1])
             /\ LabelOfDates(arg.meetings[1]) # ""
        THEN ret = LabelOfDates(arg.meetings[1])
        ELSE ret = "Other"

(***************************************************************************)
(* The groups of the list view and of the grid view                        *)
(***************************************************************************)
\* how often x occurs in a list
CountIn(list, x) == Cardinality({k \in 1..Len(list) : list[k] = x})

\* the items of the list view that show course, in the group term
ListItemsOf(course, term) ==
    {k \in 1..Len(courseItems) :
        courseItems[k].course = course /\ courseItems[k].term = term}

\* how many items of the grid view show course in the group term, and how
\* many of them are marked as full year
GridItemsOf(course, term, marked) ==
    LET at == {k \in 1..Len(calendarGroups) : calendarGroups[k].term = term}
        Shows(item) == item.course = course /\ (marked => item.isFullYear)
    IN  IF at = {} THEN 0
        ELSE Len(SelectSeq(calendarGroups[CHOOSE k \in at : TRUE].items, Shows))

WinterTerms == {"Winter Term 1", "Winter Term 2"}

\* the names a group can have
GroupNames == TermLabels \ {"Winter Full Year"}

\* the groups of the list view for the courses of the collapse
ListGroupsRight ==
    /\ \A k \in 1..Len(courseItems) : courseItems[k].term # "Winter Full Year"
    /\ \A j \in 1..Len(courseMap) : \A term \in GroupNames :
           LET shown == ListItemsOf(courseMap[j], term)
               class == determineTerm(courseMap[j])
           IN  IF class = "Winter Full Year" /\ term \in WinterTerms
               THEN /\ Cardinality(shown) = 1
                    /\ \A k \in shown : courseItems[k].isFullYear
               ELSE Cardinality(shown) = IF class = term THEN 1 ELSE 0

\* the groups of the grid view for the courses of the file
GridGroupsRight ==
    /\ \A k \in 1..Len(calendarGroups) :
           /\ calendarGroups[k].term # "Winter Full Year"
           /\ \A i \in 1..Len(calendarGroups[k].items) :
                  CountIn(appCourses, calendarGroups[k].items[i].course) > 0
    /\ \A j \in 1..Len(appCourses) : \A term \in GroupNames :
           LET course == appCourses[j]
               class == ViewDetermineTerm(course)
           IN  IF class = "Winter Full Year" /\ term \in WinterTerms
               THEN /\ GridItemsOf(course, term, FALSE) = CountIn(appCourses, course)
                    /\ GridItemsOf(course, term, TRUE) = CountIn(appCourses, course)
               ELSE GridItemsOf(course, term, FALSE)
                      = IF class = term THEN CountIn(appCourses, course) ELSE 0

\* C26: in the list view and in the grid view a course classified Winter
\* Full Year appears exactly once in the Winter Term 1 group and exactly once
\* in the Winter Term 2 group, each copy marked as full year; there is no
\* group Winter Full Year; every other course appears in exactly one group.
C26_FullYearInBothWinterTerms ==
    (fn = "app" /\ called /\ Len(appCourses) > 0) =>
        /\ ListGroupsRight
        /\ calendarGroups # <<>> => GridGroupsRight

\* a full-year course and a fall course, shown in the list and in the grid
C26_Witness ==
    /\ fn = "app"
    /\ called
    /\ appCourses = <<AppFall, AppYear>>
    /\ Len(courseItems) = 3
    /\ Len(calendarGroups) = 2
    /\ Len(calendarGroups[1].items) = 2
    /\ calendarGroups[2].term = "Winter Term 2"

(***************************************************************************)
(* C27: the courses an export works on and the checked checkboxes          *)
(***************************************************************************)
\* the courses of the displayed items whose checkbox is checked
CheckedCourses ==
    {courseItems[i + 1].course : i \in selectedCourses \cap (0..(Len(courseItems) - 1))}

\* the courses of a list
CoursesOf(list) == {list[k] : k \in 1..Len(list)}

\* the displayed items are the courses of courseMap, in the order of courseMap
ItemsInMapOrder ==
    /\ Len(courseItems) = Len(CollapseByCode(appCourses))
    /\ \A k \in 1..Len(courseItems) :
           courseItems[k].course = CollapseByCode(appCourses)[k]

\* C27: after a display and any sequence of toggles, select-all and
\* select-none, the courses getSelectedCourses hands to an export are exactly
\* the courses of the displayed items whose checkbox is checked.
C27_ExportsCheckedCourses ==
    [][getSelectedCourses => CoursesOf(ret') = CheckedCourses]_vars

\* when the term groups leave the items in the order of courseMap, the export
\* works on the checked courses
C27_ExportsCheckedWhenInMapOrder ==
    [][(getSelectedCourses /\ ItemsInMapOrder) => CoursesOf(ret') = CheckedCourses]_vars

\* the export works on the courses at the checked positions of courseMap,
\* whatever item is displayed with the position
C27_ExportsMapPositions ==
    [][getSelectedCourses =>
           \A j \in 1..Len(CollapseByCode(appCourses)) :
               (CollapseByCode(appCourses)[j] \in CoursesOf(ret')) <=> ((j - 1) \in selectedCourses)]_vars

(***************************************************************************)
(* C28: the first occurrence and the range of the meeting                  *)
(***************************************************************************)
RuleUntil == <<"R", "R", "U", "L", "E", ":", "F", "R", "E", "Q", "=", "W", "E", "E", "K", "L", "Y", ";", "U", "N", "T", "I", "L", "=">>

\* the number YYYYMMDD that follows a prefix of a content line
DateAfter(line, prefixLen) == ToNumber(SubSeq(line, prefixLen + 1, prefixLen + 8))

\* the positions of the weekly rules of the events
WeeklyRules(lines) == {k \in 3..Len(lines) : StartsWithAt(lines[k], 1, RuleUntil)}

DtstartDate(lines, k) == DateAfter(lines[k - 2], Len(NameDtstart \o TzidParam))
DtendDate(lines, k) == DateAfter(lines[k - 1], Len(NameDtend \o TzidParam))
UntilDate(lines, k) == DateAfter(lines[k], Len(RuleUntil))

\* C28: for every VEVENT with an RRULE the date of DTSTART is not later than
\* the date of the rule's UNTIL, and DTSTART and DTEND are on the same date.
C28_FirstOccurrenceInRange ==
    Generated =>
        LET lines == LinesOf(ret)
        IN  \A k \in WeeklyRules(lines) :
                /\ DtstartDate(lines, k) <= UntilDate(lines, k)
                /\ DtstartDate(lines, k) = DtendDate(lines, k)

\* DTSTART and DTEND of an event with a rule are on the same date
C28_StartAndEndSameDate ==
    Generated =>
        LET lines == LinesOf(ret)
        IN  \A k \in WeeklyRules(lines) :
                /\ PropertyName(lines[k - 2]) = NameDtstart
                /\ PropertyName(lines[k - 1]) = NameDtend
                /\ DtstartDate(lines, k) = DtendDate(lines, k)

\* the dates of the six days after a date and the date itself
WeekFrom(startDate) ==
    LET ymd == SplitOn(startDate, "-")
    IN  {ToNumber(formatDate(NormalizeDate(ToNumber(ymd[1]), ToNumber(ymd[2]),
                                           ToNumber(ymd[3]) + i))) : i \in 0..6}

\* the first occurrence is at most six days after the start date of the
\* meeting, whatever the end date is
C28_FirstOccurrenceWithinWeekOfStart ==
    Generated =>
        LET lines == LinesOf(ret)
            begins == {k \in 1..Len(lines) : lines[k] = BeginEvent}
            pairs == SurvivingPairs(arg.courses)
        IN  \A k \in 1..Len(pairs) :
                DateAfter(lines[NthOf(begins, k) + 3], Len(NameDtstart \o TzidParam))
                    \in WeekFrom(pairs[k].meeting.startDate)

(***************************************************************************)
(* Specification SpecViews: the classifier of the list view and the one    *)
(* of the grid view applied to the same course                             *)
(***************************************************************************)
InitViews ==
    /\ fn = "bothViews"
    /\ arg \in TermCourses
    /\ called = FALSE
    /\ ret = <<>>
    /\ ExcelIdle
    /\ AppIdle

CallBothDetermineTerm ==
    /\ fn = "bothViews"
    /\ ~called
    /\ called' = TRUE
    /\ ret' = [list |-> determineTerm(arg), grid |-> ViewDetermineTerm(arg)]
    /\ UNCHANGED <<fn, arg, excelVars, appVars>>

NextViews == CallBothDetermineTerm

SpecViews == InitViews /\ [][NextViews]_vars

Classified == fn = "bothViews" /\ called

\* C29: the classifier of the list view and the classifier of the grid view
\* return the same label for every course.
C29_SameLabelInBothViews == Classified => ret.list = ret.grid

\* the student term decides in neither view
NoStudentRule(course) ==
    course.student # NoStudent =>
        /\ TermOfStudentTerm(ToLowerCase(course.student.term)) = ""
        /\ ViewTermOfStudentTerm(ToLowerCase(course.student.term)) = ""

\* without a deciding student term, the two views agree whenever the dates of
\* the course match a threshold
C29_SameLabelFromCourseDates ==
    (/\ Classified
     /\ NoStudentRule(arg)
     /\ HasBothDates(arg)
     /\ TermOfMonths(MonthOf(arg.startDate), MonthOf(arg.endDate)) # "")
        => ret.list = ret.grid

\* a student term of a full year is Winter Full Year in the list view, while
\* the grid view classifies the course as if it had no student
C29_FullYearTermInListOnly ==
    (/\ Classified
     /\ arg.student # NoStudent
     /\ Includes(ToLowerCase(arg.student.term), <<"f", "u", "l", "l", " ", "y", "e", "a", "r">>))
        => /\ ret.list = "Winter Full Year"
           /\ ret.grid = ViewDetermineTerm([arg EXCEPT !.student = NoStudent])

(***************************************************************************)
(* Specification SpecReads: files are chosen and reset is pressed while    *)
(* reads are in flight; the reads complete in any order                    *)
(***************************************************************************)
MaxReads == 2

FileA == <<"a", ".", "x", "l", "s", "x">>
FileB == <<"B", ".", "X", "L", "S">>
FileEmpty == <<"e", "m", "p", "t", "y", ".", "x", "l", "s", "x">>
FileBroken == <<"b", "r", "o", "k", "e", "n", ".", "x", "l", "s">>
FileNotes == <<"n", "o", "t", "e", "s", ".", "t", "x", "t">>

Files == {FileA, FileB, FileEmpty, FileBroken, FileNotes}

\* what parseExcel makes of the content of a file
ResultOf(file) ==
    IF file = FileA THEN [courses |-> <<AppFall>>]
    ELSE IF file = FileB THEN [courses |-> <<AppYear, AppUndated>>]
    ELSE IF file = FileEmpty THEN [courses |-> <<>>]
    ELSE [error |-> "Error"]

InitReads ==
    /\ fn = "reads"
    /\ arg = <<>>
    /\ called = FALSE
    /\ ret = <<>>
    /\ ExcelIdle
    /\ AppIdle

NextReads ==
    \/ \E file \in Files : Len(pendingReads) < MaxReads /\ handleFile(file)
    \/ \E i \in 1..MaxReads :
           i <= Len(pendingReads) /\ ReadCompletes(i, ResultOf(pendingReads[i]))
    \/ \E i \in 1..MaxReads : ReadFails(i)
    \/ reset

SpecReads == InitReads /\ [][NextReads]_vars

\* no read is in flight
ReadsDone == fn = "reads" /\ pendingReads = <<>>

\* the list shows the courses of a file
Shows(file) ==
    /\ appCourses = ResultOf(file).courses
    /\ courseItems = ItemsOfGroups(CollapseByCode(ResultOf(file).courses), 1)
    /\ previewShown

\* C30: when every read has completed, the courses shown are those of the most
\* recently chosen file, or none with the preview hidden when reset was the
\* last action, whatever the order in which the reads completed. A state
\* with an error message (a read that failed, a file without courses, a
\* name that is no Excel name) is left aside.
C30_LastActionWins ==
    (ReadsDone /\ ~errorShown) =>
        /\ chosenFile = NoFile => (appCourses = <<>> /\ courseItems = <<>> /\ ~previewShown)
        /\ chosenFile \in {FileA, FileB} => Shows(chosenFile)

\* a read that completes with courses shows them, whatever was chosen or
\* pressed after it started
C30_CompletedReadIsShown ==
    [][\A i \in 1..MaxReads :
           (/\ i <= Len(pendingReads)
            /\ pendingReads[i] \in {FileA, FileB}
            /\ ReadCompletes(i, ResultOf(pendingReads[i])))
               => (/\ appCourses' = ResultOf(pendingReads[i]).courses
                   /\ previewShown')]_vars

\* reset empties the list and hides the preview at once and leaves the reads
\* in flight
C30_ResetKeepsReads ==
    [][reset => (/\ appCourses' = <<>>
                 /\ ~previewShown'
                 /\ pendingReads' = pendingReads)]_vars

\* every read is done, the file chosen last is FileB, and the list shows the
\* courses of FileA, whose read completed after the one of FileB
C30_EarlierFileShown ==
    /\ ReadsDone
    /\ ~errorShown
    /\ chosenFile = FileB
    /\ appCourses = ResultOf(FileA).courses
    /\ previewShown
=============================================================================
